---- MODULE Spec2Model ----
(***************************************************************************)
(* The pull-request aggregation of github-chan (src/lib/github-prs.ts,     *)
(* lines 186-447): fetchDashboardPullRequests walks the configured         *)
(* accounts one after another, lists the repositories each token can see,  *)
(* fetches the open pull requests of the candidate repositories through    *)
(* mapWithConcurrency, and merges everything into two insertion-ordered    *)
(* maps.                                                                   *)
(*                                                                         *)
(* Scheduling is that of one JavaScript event loop: a step of the model is *)
(* the arrival of one HTTP response together with everything the code runs *)
(* before it next waits for the network.                                   *)
(***************************************************************************)
EXTENDS Integers, Sequences, FiniteSets, TLC

(***************************************************************************)
(* Bounds of the model.                                                    *)
(***************************************************************************)
\* The API answers at most MaxFullPages full pages in a run whose listings
\* span several pages.
MaxFullPages == 2
\* mapWithConcurrency on its own: the longest items array and largest limit.
MaxItems == 3
MaxLimit == 2

(***************************************************************************)
(* Program constants.                                                      *)
(***************************************************************************)
PAGE_SIZE == 100
REPO_FETCH_CONCURRENCY == 8

Min(a, b) == IF a < b THEN a ELSE b
Max(a, b) == IF a > b THEN a ELSE b

\* JavaScript's null, as a record so that it compares with objects.
Null == [null |-> TRUE]
\* The body of an error answer that is not JSON or carries no message.
NoMessage == "<none>"

(***************************************************************************)
(* Strings the model needs to compare.  String.prototype.toLowerCase and   *)
(* String.prototype.localeCompare are tabulated over the strings in use.   *)
(***************************************************************************)
toLowerCase(s) ==
    CASE s \in {"acme", "Acme", "ACME"} -> "acme"
      [] s \in {"other", "Other"} -> "other"
      [] OTHER -> s

\* Collation rank: localeCompare orders "alice" before "Bob" before "carol",
\* where the code-unit order would put "Bob" first.
LocaleRank(s) ==
    CASE s = "alice" -> 1
      [] s = "Bob" -> 2
      [] s = "carol" -> 3

localeCompare(a, b) == LocaleRank(a) - LocaleRank(b)

(***************************************************************************)
(* What loadDashboardConfig can return: accounts in config order, each     *)
(* with at least one organization and a non-empty token.                   *)
(***************************************************************************)
AcctBob == [name |-> "Bob", organizations |-> <<"ACME">>,
            tokenEnv |-> "GITHUB_TOKEN_A", token |-> "gho_bob"]
AcctAlice == [name |-> "alice", organizations |-> <<"acme", "Other">>,
              tokenEnv |-> "GITHUB_TOKEN_B", token |-> "gho_alice"]
AcctCarol == [name |-> "carol", organizations |-> <<"other">>,
              tokenEnv |-> "GITHUB_TOKEN_C", token |-> "gho_carol"]

ConfigResults ==
    { [configPath |-> "github-dashboard.yml", warnings |-> <<>>,
       accounts |-> <<AcctBob, AcctAlice>>],
      [configPath |-> "github-dashboard.yml",
       warnings |-> <<"Skipped account #2: missing \"tokenEnv\" in config.">>,
       accounts |-> <<AcctCarol, AcctBob>>],
      [configPath |-> "./my-config.yml", warnings |-> <<>>,
       accounts |-> <<AcctAlice>>] }

ConfigErrors ==
    { "Could not read config file \"github-dashboard.yml\". Create it from github-dashboard.example.yml or set GITHUB_DASHBOARD_CONFIG.",
      "Config file \"github-dashboard.yml\" is not valid YAML. Please fix the syntax.",
      "Invalid config at github-dashboard.yml: expected \"accounts\" with at least one account entry.",
      "No valid accounts found in github-dashboard.yml. Check token env vars and organizations." }

(***************************************************************************)
(* loadDashboardConfig.  A value of the parsed YAML document carries its   *)
(* JavaScript type; an entry of the accounts list is a mapping or null.    *)
(***************************************************************************)
MaxEntries == 3

DEFAULT_CONFIG_PATH == "github-dashboard.yml"

Undefined == [type |-> "undefined", text |-> "", items |-> <<>>]
Str(text) == [type |-> "string", text |-> text, items |-> <<>>]
Num(text) == [type |-> "number", text |-> text, items |-> <<>>]
Arr(items) == [type |-> "array", text |-> "", items |-> items]

\* String.prototype.trim on the strings of the model.
trim(s) ==
    CASE s = " GITHUB_TOKEN_A " -> "GITHUB_TOKEN_A"
      [] s = " alice " -> "alice"
      [] s = " other" -> "other"
      [] s = "gho_alice " -> "gho_alice"
      [] s = " " -> ""
      [] s = "   " -> ""
      [] OTHER -> s

\* process.env[name]: GITHUB_TOKEN_D is set to blanks, GITHUB_TOKEN_E is
\* not set.
ProcessEnv(name) ==
    CASE name = "GITHUB_TOKEN_A" -> Str("gho_bob")
      [] name = "GITHUB_TOKEN_B" -> Str("gho_alice ")
      [] name = "GITHUB_TOKEN_C" -> Str("gho_carol")
      [] name = "GITHUB_TOKEN_D" -> Str("   ")
      [] OTHER -> Undefined

RawAccount(name, tokenEnv, organizations) ==
    [type |-> "object", name |-> name, tokenEnv |-> tokenEnv,
     organizations |-> organizations]

\* `- ` in the YAML list: the entry parses to null.
RawNull ==
    [type |-> "null", name |-> Undefined, tokenEnv |-> Undefined,
     organizations |-> Undefined]

\* The entries a configuration file may list.
RawAccounts ==
    { RawAccount(Str("Bob"), Str(" GITHUB_TOKEN_A "), Arr(<<"ACME">>)),
      RawAccount(Str(" alice "), Str("GITHUB_TOKEN_B"),
                 Arr(<<"acme", " ", "Other">>)),
      RawAccount(Str("carol"), Str("GITHUB_TOKEN_C"), Arr(<<" other">>)),
      RawAccount(Undefined, Str("GITHUB_TOKEN_B"), Arr(<<"Other">>)),
      RawAccount(Str("dave"), Undefined, Arr(<<"acme">>)),
      RawAccount(Str("erin"), Str("   "), Undefined),
      RawAccount(Str("frank"), Str("GITHUB_TOKEN_E"), Str("acme")),
      RawAccount(Str("grace"), Str("GITHUB_TOKEN_D"), Arr(<<"acme">>)),
      RawAccount(Str("heidi"), Num("12345"), Arr(<<"acme">>)),
      RawNull }

RECURSIVE ListsOf(_, _)
ListsOf(set, n) ==
    IF n = 0 THEN { <<>> }
    ELSE LET shorter == ListsOf(set, n - 1) IN
         shorter \cup { Append(list, x) : list \in shorter, x \in set }

\* What the loader finds at the path it is asked for.
ConfigFiles ==
    { [requestedPath |-> path, content |-> content, accounts |-> <<>>] :
        path \in { DEFAULT_CONFIG_PATH, "./my-config.yml" },
        content \in { "unreadable", "not yaml", "no accounts" } }
    \cup
    { [requestedPath |-> path, content |-> "yaml", accounts |-> list] :
        path \in { DEFAULT_CONFIG_PATH, "./my-config.yml" },
        list \in ListsOf(RawAccounts, MaxEntries) }

\* !token
TokenMissing(token) == token = ""

normalizeOrganizations(value) ==
    IF value.type # "array" THEN <<>>
    ELSE SelectSeq([i \in DOMAIN value.items |-> trim(value.items[i])],
                   LAMBDA item : item # "")

\* The callback of parsed.accounts.forEach: state is what has been pushed so
\* far, and the TypeError thrown, if any.
ValidateAccount(state, account, index) ==
    IF account.type = "null"
    THEN [state EXCEPT !.thrown =
            <<"Cannot read properties of null (reading 'tokenEnv')">>]
    ELSE IF account.tokenEnv.type \notin {"undefined", "string"}
    THEN [state EXCEPT !.thrown =
            <<"account.tokenEnv?.trim is not a function">>]
    ELSE
    LET tokenEnv == trim(account.tokenEnv.text)
        organizations == normalizeOrganizations(account.organizations)
        token == trim(ProcessEnv(tokenEnv).text)
        name == trim(account.name.text)
    IN  IF tokenEnv = ""
        THEN [state EXCEPT !.warnings = Append(@,
                "Skipped account #" \o ToString(index)
                \o ": missing \"tokenEnv\" in config.")]
        ELSE IF organizations = <<>>
        THEN [state EXCEPT !.warnings = Append(@,
                "Skipped account \"" \o tokenEnv
                \o "\": no organizations configured.")]
        ELSE IF TokenMissing(token)
        THEN [state EXCEPT !.warnings = Append(@,
                "Skipped account \"" \o tokenEnv
                \o "\": environment variable " \o tokenEnv
                \o " is empty or missing.")]
        ELSE [state EXCEPT !.accounts = Append(@,
                [name |-> IF name # "" THEN name ELSE tokenEnv,
                 organizations |-> organizations,
                 tokenEnv |-> tokenEnv,
                 token |-> token])]

\* parsed.accounts.forEach from the entry at `index` on; a throw ends it.
RECURSIVE ForEachAccount(_, _, _)
ForEachAccount(state, rawAccounts, index) ==
    IF index > Len(rawAccounts) \/ state.thrown # <<>> THEN state
    ELSE ForEachAccount(ValidateAccount(state, rawAccounts[index], index),
                        rawAccounts, index + 1)

\* What loadDashboardConfig settles with: thrown holds the message of the
\* error it rejects with, or is empty and the other fields are its result.
loadDashboardConfig(file) ==
    LET Throw(message) ==
            [configPath |-> file.requestedPath, accounts |-> <<>>,
             warnings |-> <<>>, thrown |-> <<message>>]
        state == ForEachAccount([configPath |-> file.requestedPath,
                                 accounts |-> <<>>, warnings |-> <<>>,
                                 thrown |-> <<>>], file.accounts, 1)
    IN  IF file.content = "unreadable"
        THEN Throw("Could not read config file \"" \o file.requestedPath
                   \o "\". Create it from github-dashboard.example.yml or set GITHUB_DASHBOARD_CONFIG.")
        ELSE IF file.content = "not yaml"
        THEN Throw("Config file \"" \o file.requestedPath
                   \o "\" is not valid YAML. Please fix the syntax.")
        ELSE IF file.content = "no accounts" \/ Len(file.accounts) = 0
        THEN Throw("Invalid config at " \o file.requestedPath
                   \o ": expected \"accounts\" with at least one account entry.")
        ELSE IF state.thrown # <<>> THEN state
        ELSE IF Len(state.accounts) = 0
        THEN Throw("No valid accounts found in " \o file.requestedPath
                   \o ". Check token env vars and organizations.")
        ELSE state

(***************************************************************************)
(* What the GitHub API can answer.                                         *)
(***************************************************************************)
Repo(owner, name, archived, issues, count, updated) ==
    [name |-> name,
     full_name |-> owner \o "/" \o name,
     html_url |-> "https://github.com/" \o owner \o "/" \o name,
     owner |-> [login |-> owner],
     private |-> (name = "widgets"),
     visibility |-> IF name = "widgets" THEN "private" ELSE "public",
     archived |-> archived,
     has_issues |-> issues,
     open_issues_count |-> count,
     updated_at |-> updated,
     default_branch |-> IF updated = "2024-01-01" THEN "main" ELSE "master"]

\* acme/widgets as two accounts may see it: the second sighting differs in
\* archived, open_issues_count, updated_at and default_branch.
RepoWidgets == Repo("Acme", "widgets", FALSE, TRUE, 2, "2024-01-01")
RepoWidgetsOld == Repo("Acme", "widgets", TRUE, TRUE, 5, "2023-06-30")
RepoGears == Repo("acme", "gears", FALSE, TRUE, 1, "2024-01-01")
RepoDocs == Repo("acme", "docs", FALSE, FALSE, 3, "2024-01-01")
RepoLib == Repo("other", "lib", FALSE, TRUE, 0, "2024-01-01")
RepoLibBusy == Repo("other", "lib", FALSE, TRUE, 4, "2023-06-30")
\* Repositories of an organization no account is configured for.
RepoFiller(i) == Repo("zzz", "r" \o ToString(i), FALSE, TRUE, 1, "2023-06-30")

\* n such repositories as page p of a listing.
FillerRepos(p, n) == [i \in 1..n |-> RepoFiller(PAGE_SIZE * (p - 1) + i)]

\* The pages the "repositories accessible to this credential" endpoint answers
\* as page p.
ShortRepoPages(p) ==
    { <<>>,
      <<RepoWidgets>>,
      <<RepoGears, RepoWidgets>>,
      <<RepoWidgetsOld, RepoLibBusy>>,
      <<RepoDocs, RepoLib>>,
      <<RepoGears, RepoGears>> }
      \cup (IF p > 1 THEN {FillerRepos(p, 40)} ELSE {})

FullRepoPage(p) == FillerRepos(p, PAGE_SIZE)

Pull(number, title, login, draft) ==
    [number |-> number,
     title |-> title,
     html_url |-> "https://github.com/pull/" \o ToString(number),
     draft |-> draft,
     created_at |-> "2024-01-01T00:00:00Z",
     user |-> IF login = "" THEN Null ELSE [login |-> login]]

PullFive == Pull(5, "Fix bug", "alice", FALSE)
\* The same pull request number with other field values and no user.
PullFiveEdited == Pull(5, "Fix bug (edited)", "", TRUE)
PullSeven == Pull(7, "Add feature", "bob", FALSE)
PullFiller(i) == Pull(1000 + i, "Chore", "bot", FALSE)

\* The pages the "open pull requests of a repository" endpoint answers.
ShortPullPages ==
    { <<>>,
      <<PullFive>>,
      <<PullSeven>>,
      <<PullSeven, PullFiveEdited>> }

FullPullPage(p) == [i \in 1..PAGE_SIZE |-> PullFiller(PAGE_SIZE * (p - 1) + i)]

\* Page p of a listing while the API may still answer b full pages.
RepoPages(p, b) == ShortRepoPages(p) \cup (IF b > 0 THEN {FullRepoPage(p)} ELSE {})

PullPages(p, b) == ShortPullPages \cup (IF b > 0 THEN {FullPullPage(p)} ELSE {})

Spend(b, batch) == IF Len(batch) >= PAGE_SIZE THEN b - 1 ELSE b

\* A non-success answer: the status, whether the body parses as JSON, and
\* the message property of the parsed body if it has one; for a body that is
\* not JSON, message is its text.
ErrorResponses ==
    { [status |-> 404, json |-> TRUE, message |-> "Not Found"],
      [status |-> 500, json |-> TRUE, message |-> NoMessage],
      [status |-> 502, json |-> FALSE, message |-> "Bad Gateway"] }

VARIABLES
    pc,               \* where fetchDashboardPullRequests stands
    accounts,         \* loadDashboardConfig(): accounts
    warnings,         \* loadDashboardConfig(): warnings
    configPath,       \* loadDashboardConfig(): configPath
    acct,             \* position of `account` in accounts (0: loop not begun)
    page,             \* listAccessibleRepos: page
    listed,           \* listAccessibleRepos: repositories
    repositoryById,   \* Map, as its entries in insertion order
    pullRequestById,  \* Map, as its entries in insertion order
    items,            \* mapWithConcurrency: items
    limit,            \* mapWithConcurrency: limit
    nextIndex,        \* mapWithConcurrency: nextIndex
    results,          \* mapWithConcurrency: results
    workers,          \* mapWithConcurrency: the worker() calls
    mapState,         \* the promise mapWithConcurrency returned
    inflight,         \* HTTP requests sent and not yet answered
    returned,         \* value fetchDashboardPullRequests resolved with
    thrown,           \* error fetchDashboardPullRequests rejected with
    log,              \* history: every request and answer, in order
    received,         \* history: the pages of the discovery under way
    discovered,       \* history: per account processed, its discovery
    listings,         \* history: every listing a mapper call received
    budget,           \* environment: full pages the API may still answer
    home,             \* where Home stands
    dashboardData,    \* Home: dashboardData (<<>>: undefined)
    loadError,        \* Home: loadError (<<>>: undefined)
    suspended,        \* a second invocation, suspended: its variables
    configFile,       \* loadDashboardConfig: the file and what it parses to
    paginateCall,     \* paginate: items, requestedPage, pageSize
    pagination,       \* paginate: the PaginationResult (<<>>: not called)
    tabMode,          \* DashboardClient: tabMode
    viewMode,         \* DashboardClient: viewMode
    sortMode,         \* DashboardClient: sortMode
    allPullPage,      \* DashboardClient: allPullPage
    pullOrgPages,     \* DashboardClient: pullOrgPages
    repoOrgPages,     \* DashboardClient: repoOrgPages
    searchParams,     \* useSearchParams(): the URL's query, as its pairs
    lastSyncedSearchRef,  \* DashboardClient: lastSyncedSearchRef.current
    replaces          \* router.replace calls not yet completed, oldest first

vars == <<pc, accounts, warnings, configPath, acct, page, listed,
          repositoryById, pullRequestById, items, limit, nextIndex, results,
          workers, mapState, inflight, returned, thrown, log, received,
          discovered, listings, budget, home, dashboardData, loadError,
          suspended, configFile, paginateCall, pagination, tabMode, viewMode,
          sortMode, allPullPage, pullOrgPages, repoOrgPages, searchParams,
          lastSyncedSearchRef, replaces>>

\* The useState cells of DashboardClient.
clientState == <<tabMode, viewMode, sortMode, allPullPage, pullOrgPages,
                 repoOrgPages, searchParams, lastSyncedSearchRef, replaces>>

\* The loader's file is not read, paginate is not called and DashboardClient
\* holds the defaults of its useState cells: the state of these variables
\* in the specifications of fetchDashboardPullRequests, which do not read
\* them.
Idle ==
    /\ configFile = <<>>
    /\ paginateCall = <<>>
    /\ pagination = <<>>
    /\ tabMode = "repos"
    /\ viewMode = "org"
    /\ sortMode = "newest"
    /\ allPullPage = 1
    /\ pullOrgPages = <<>>
    /\ repoOrgPages = <<>>
    /\ searchParams = <<>>
    /\ lastSyncedSearchRef = <<>>
    /\ replaces = <<>>

(***************************************************************************)
(* fetchGitHub: the request sent, and the error thrown on a non-success    *)
(* status.                                                                 *)
(***************************************************************************)
ReposPath(p) == [endpoint |-> "/user/repos", owner |-> "", repo |-> "",
                 per_page |-> PAGE_SIZE, page |-> p]

PullsPath(owner, repo, p) == [endpoint |-> "/repos/pulls", owner |-> owner,
                              repo |-> repo, per_page |-> PAGE_SIZE, page |-> p]

\* worker: the worker() call awaiting the answer, 0 for the account loop.
\* call: the listing the request belongs to, as <<position of the account,
\* index of the repository in items>>, the index being -1 for the discovery.
Request(path, token, worker, call) ==
    [path |-> path, token |-> token, worker |-> worker, call |-> call]

Requested(req) == [kind |-> "request", request |-> req, size |-> 0]
\* size: the number of items of the page, -1 for a non-success status.
Answered(req, size) == [kind |-> "response", request |-> req, size |-> size]

\* An error that takes the text of the body as it comes.
GitHubErrorRawBody(response, path) ==
    [status |-> response.status,
     path |-> path,
     message |-> response.message]

\* `GitHub API ${status} for "${path}": ${message}`: errorBody is the parsed
\* body, or null (<<>>) when response.json() rejects; the message is that of
\* the body, or the fallback text.
GitHubError(response, path) ==
    LET errorBody == IF response.json
                     THEN <<[message |-> response.message]>>
                     ELSE <<>>
        message == IF errorBody = <<>> \/ errorBody[1].message = NoMessage
                   THEN "Unknown GitHub API error"
                   ELSE errorBody[1].message
    IN  [status |-> response.status, path |-> path, message |-> message]

\* The path of a request as the text put into the URL and into the error.
PathText(path) ==
    IF path.endpoint = "/user/repos"
    THEN "/user/repos?visibility=all&affiliation=owner,collaborator,organization_member&sort=updated&direction=desc&per_page="
           \o ToString(path.per_page) \o "&page=" \o ToString(path.page)
    ELSE "/repos/" \o path.owner \o "/" \o path.repo
           \o "/pulls?state=open&sort=created&direction=desc&per_page="
           \o ToString(path.per_page) \o "&page=" \o ToString(path.page)

\* error.message of a thrown Error: the text built by fetchGitHub, or the
\* text loadDashboardConfig threw.
ErrorMessage(error) ==
    IF "status" \in DOMAIN error
    THEN "GitHub API " \o ToString(error.status) \o " for \"" \o PathText(error.path)
           \o "\": " \o error.message
    ELSE error.message

(***************************************************************************)
(* The loop of listAccessibleRepos and of listRepoOpenPullRequests.        *)
(***************************************************************************)
\* repositories.push(...batch), pullRequests.push(...batch)
PageAppend(listing, batch) == listing \o batch

\* A loop that also stops on a full page.
IsLastPageInclusive(batch) == Len(batch) <= PAGE_SIZE

\* if (batch.length < PAGE_SIZE) break
IsLastPage(batch) == Len(batch) < PAGE_SIZE

(***************************************************************************)
(* The two Maps, kept as the sequence of their values in insertion order.  *)
(***************************************************************************)
MapHas(map, id) == \E i \in DOMAIN map : map[i].id = id

MapGet(map, id) == map[CHOOSE i \in DOMAIN map : map[i].id = id]

\* Array.prototype.forEach threading the state `acc` through Body, element
\* after element in index order.  The array is walked in two halves, the
\* first evaluated (left = left) before the second begins, only to keep the
\* evaluation shallow on pages of PAGE_SIZE items.
RECURSIVE ForEach(_, _, _)
ForEach(Body(_, _), acc, array) ==
    IF Len(array) = 0 THEN acc
    ELSE IF Len(array) = 1 THEN Body(acc, array[1])
    ELSE LET half == Len(array) \div 2
             left == ForEach(Body, acc, SubSeq(array, 1, half))
         IN  IF left = left
             THEN ForEach(Body, left, SubSeq(array, half + 1, Len(array)))
             ELSE acc

\* Set.prototype.add on a Set kept in insertion order.
SetAdd(set, x) == IF \E i \in DOMAIN set : set[i] = x THEN set ELSE Append(set, x)

\* A merge in which a later sighting refreshes the fields of the entry.
MergeRepositoryOverwrite(map, repo, accountName) ==
    IF MapHas(map, repo.full_name)
    THEN [i \in DOMAIN map |->
            IF map[i].id = repo.full_name
            THEN [map[i] EXCEPT !.accounts = SetAdd(@, accountName),
                                !.archived = repo.archived,
                                !.openIssuesCount = repo.open_issues_count,
                                !.updatedAt = repo.updated_at,
                                !.defaultBranch = repo.default_branch]
            ELSE map[i]]
    ELSE Append(map,
           [id |-> repo.full_name,
            organization |-> repo.owner.login,
            name |-> repo.name,
            fullName |-> repo.full_name,
            url |-> repo.html_url,
            private |-> repo.private,
            visibility |-> repo.visibility,
            archived |-> repo.archived,
            openIssuesCount |-> repo.open_issues_count,
            openPullRequestCount |-> 0,
            updatedAt |-> repo.updated_at,
            defaultBranch |-> repo.default_branch,
            accounts |-> <<accountName>>])

\* A merge that inserts an entry for every sighting.
MergeRepositoryAlwaysInsert(map, repo, accountName) ==
    Append(map,
           [id |-> repo.full_name,
            organization |-> repo.owner.login,
            name |-> repo.name,
            fullName |-> repo.full_name,
            url |-> repo.html_url,
            private |-> repo.private,
            visibility |-> repo.visibility,
            archived |-> repo.archived,
            openIssuesCount |-> repo.open_issues_count,
            openPullRequestCount |-> 0,
            updatedAt |-> repo.updated_at,
            defaultBranch |-> repo.default_branch,
            accounts |-> <<accountName>>])

\* A merge in which the latest account replaces the accounts of the entry.
MergeRepositoryLastAccount(map, repo, accountName) ==
    IF MapHas(map, repo.full_name)
    THEN [i \in DOMAIN map |->
            IF map[i].id = repo.full_name
            THEN [map[i] EXCEPT !.accounts = <<accountName>>]
            ELSE map[i]]
    ELSE MergeRepositoryAlwaysInsert(map, repo, accountName)

\* The body of repositories.forEach: an existing entry only gains the account.
MergeRepository(map, repo, accountName) ==
    IF MapHas(map, repo.full_name)
    THEN [i \in DOMAIN map |->
            IF map[i].id = repo.full_name
            THEN [map[i] EXCEPT !.accounts = SetAdd(@, accountName)]
            ELSE map[i]]
    ELSE Append(map,
           [id |-> repo.full_name,
            organization |-> repo.owner.login,
            name |-> repo.name,
            fullName |-> repo.full_name,
            url |-> repo.html_url,
            private |-> repo.private,
            visibility |-> repo.visibility,
            archived |-> repo.archived,
            openIssuesCount |-> repo.open_issues_count,
            openPullRequestCount |-> 0,
            updatedAt |-> repo.updated_at,
            defaultBranch |-> repo.default_branch,
            accounts |-> <<accountName>>])

MergeRepositories(map, repositories, accountName) ==
    ForEach(LAMBDA m, repo : MergeRepository(m, repo, accountName),
            map, repositories)

\* The organization filter applied to what listAccessibleRepos returned.
AllowedOrgs(account) ==
    { toLowerCase(account.organizations[i]) : i \in DOMAIN account.organizations }

\* A filter that compares the owner with the organizations as written.
IsAllowedExactCase(account, repo) ==
    \E i \in DOMAIN account.organizations :
      account.organizations[i] = repo.owner.login

IsAllowed(account, repo) == toLowerCase(repo.owner.login) \in AllowedOrgs(account)

FilterRepositories(account, repos) ==
    SelectSeq(repos, LAMBDA repo : IsAllowed(account, repo))

\* A filter that lets archived repositories through.
IsCandidateIgnoringArchived(repo) ==
    repo.has_issues /\ repo.open_issues_count > 0

IsCandidate(repo) ==
    ~repo.archived /\ repo.has_issues /\ repo.open_issues_count > 0

CandidateRepos(repositories) == SelectSeq(repositories, IsCandidate)

\* A count that follows the latest listing instead of the largest.
RecordCountLatest(map, repo, repoPullRequests) ==
    [i \in DOMAIN map |->
       IF map[i].id = repo.full_name
       THEN [map[i] EXCEPT !.openPullRequestCount = Len(repoPullRequests)]
       ELSE map[i]]

\* The mapper's side effect on the repository of the listing it fetched.
RecordCount(map, repo, repoPullRequests) ==
    [i \in DOMAIN map |->
       IF map[i].id = repo.full_name
       THEN [map[i] EXCEPT !.openPullRequestCount = Max(@, Len(repoPullRequests))]
       ELSE map[i]]

PullRequestId(repo, pullRequest) ==
    repo.full_name \o "#" \o ToString(pullRequest.number)

\* The mapper's return value.
MapperValue(repo, account, repoPullRequests) ==
    [i \in DOMAIN repoPullRequests |->
       LET pullRequest == repoPullRequests[i] IN
       [id |-> PullRequestId(repo, pullRequest),
        organization |-> repo.owner.login,
        repository |-> repo.name,
        repositoryFullName |-> repo.full_name,
        number |-> pullRequest.number,
        title |-> pullRequest.title,
        url |-> pullRequest.html_url,
        author |-> IF pullRequest.user = Null THEN "unknown"
                   ELSE pullRequest.user.login,
        draft |-> pullRequest.draft,
        createdAt |-> pullRequest.created_at,
        account |-> account.name]]

\* A merge in which the last sighting of an id wins.
MergePullRequestOverwrite(map, pullRequest) ==
    IF MapHas(map, pullRequest.id)
    THEN [i \in DOMAIN map |->
            IF map[i].id = pullRequest.id THEN pullRequest ELSE map[i]]
    ELSE Append(map, pullRequest)

\* The body of batch.forEach: an id already present is left as it is.
MergePullRequest(map, pullRequest) ==
    IF MapHas(map, pullRequest.id) THEN map ELSE Append(map, pullRequest)

MergeBatch(map, batch) == ForEach(MergePullRequest, map, batch)

\* repoPullRequestBatches.forEach: a slot is <<>> while empty (forEach skips
\* it) and <<value>> once assigned.
MergeBatches(map, batches) ==
    ForEach(LAMBDA m, slot : IF slot = <<>> THEN m ELSE MergeBatch(m, slot[1]),
            map, batches)

\* toSorted((a, b) => a.localeCompare(b)): a stable sort.
RECURSIVE InsertSorted(_, _)
InsertSorted(sorted, x) ==
    IF sorted = <<>> THEN <<x>>
    ELSE IF localeCompare(x, sorted[Len(sorted)]) >= 0 THEN Append(sorted, x)
    ELSE Append(InsertSorted(SubSeq(sorted, 1, Len(sorted) - 1), x),
                sorted[Len(sorted)])

\* The accounts left in insertion order.
SortAccountsUnsorted(names) == names

RECURSIVE SortAccounts(_)
SortAccounts(names) ==
    IF names = <<>> THEN <<>>
    ELSE InsertSorted(SortAccounts(SubSeq(names, 1, Len(names) - 1)),
                      names[Len(names)])

AllRepositories(map) ==
    [i \in DOMAIN map |-> [map[i] EXCEPT !.accounts = SortAccounts(@)]]

(***************************************************************************)
(* Initial state: fetchDashboardPullRequests has been called and awaits    *)
(* loadDashboardConfig; nothing has been requested.                        *)
(***************************************************************************)
Init ==
    /\ pc = "config"
    /\ accounts = <<>>
    /\ warnings = <<>>
    /\ configPath = ""
    /\ acct = 0
    /\ page = 0
    /\ listed = <<>>
    /\ repositoryById = <<>>
    /\ pullRequestById = <<>>
    /\ items = <<>>
    /\ limit = 0
    /\ nextIndex = 0
    /\ results = <<>>
    /\ workers = <<>>
    /\ mapState = "none"
    /\ inflight = {}
    /\ returned = <<>>
    /\ thrown = <<>>
    /\ log = <<>>
    /\ received = <<>>
    /\ discovered = <<>>
    /\ listings = {}
    /\ budget = 0
    /\ home = "awaiting"
    /\ dashboardData = <<>>
    /\ loadError = <<>>
    /\ suspended = <<>>
    /\ Idle

(***************************************************************************)
(* Pieces of fetchDashboardPullRequests shared by several steps.           *)
(***************************************************************************)
\* The head of the account loop up to the first await of listAccessibleRepos:
\* page 1 of the discovery is requested with the account's token.
StartAccount(k, accts, pending, history) ==
    LET req == Request(ReposPath(1), accts[k].token, 0, <<k, -1>>) IN
    /\ pc' = "discover"
    /\ acct' = k
    /\ page' = 1
    /\ listed' = <<>>
    /\ received' = <<>>
    /\ inflight' = pending \cup {req}
    /\ log' = Append(history, Requested(req))

\* A return that leaves the warnings out and reports the default path.
ReturnDataDefaults(repoMap, prMap, pending, history) ==
    /\ pc' = "returned"
    /\ returned' = <<[configPath |-> "github-dashboard.yml",
                      warnings |-> <<>>,
                      pullRequests |-> prMap,
                      repositories |-> AllRepositories(repoMap)]>>
    /\ inflight' = pending
    /\ log' = history
    /\ UNCHANGED <<acct, page, listed, received>>

\* The end of the function: both maps become arrays.
ReturnData(repoMap, prMap, pending, history) ==
    /\ pc' = "returned"
    /\ returned' = <<[configPath |-> configPath,
                      warnings |-> warnings,
                      pullRequests |-> prMap,
                      repositories |-> AllRepositories(repoMap)]>>
    /\ inflight' = pending
    /\ log' = history
    /\ UNCHANGED <<acct, page, listed, received>>

\* What follows `await mapWithConcurrency(...)`: the batches are merged, then
\* the loop goes to the next account or the function returns.
AfterFanOut(repoMap, repoPullRequestBatches, pending, history) ==
    LET prMap == MergeBatches(pullRequestById, repoPullRequestBatches) IN
    /\ repositoryById' = repoMap
    /\ pullRequestById' = prMap
    /\ IF acct < Len(accounts)
       THEN StartAccount(acct + 1, accounts, pending, history)
            /\ UNCHANGED returned
       ELSE ReturnData(repoMap, prMap, pending, history)
    /\ UNCHANGED thrown

\* One worker per item, whatever the limit.
WorkerCountUnbounded(its, lim) == Len(its)

\* Array.from({ length: Math.min(limit, items.length) }, () => worker()).
WorkerCount(its, lim) == Max(0, Min(lim, Len(its)))

\* A worker() call up to its first await: it has claimed an index and the
\* mapper has requested page 1 of that repository's pull requests.
\* A claim that reads the cursor as it stood before the last increment.
ClaimedStale(its, index) ==
    LET stale == Max(0, index - 1) IN
    [status |-> "awaiting", currentIndex |-> stale, repo |-> its[stale + 1],
     page |-> 1, pullRequests |-> <<>>, received |-> <<>>]

Claimed(its, index) ==
    [status |-> "awaiting", currentIndex |-> index, repo |-> its[index + 1],
     page |-> 1, pullRequests |-> <<>>, received |-> <<>>]

PullsRequest(worker, token, w, k) ==
    Request(PullsPath(worker.repo.owner.login, worker.repo.name, worker.page),
            token, w, <<k, worker.currentIndex>>)

LaunchWorkers(its, lim) == [w \in 1..WorkerCount(its, lim) |-> Claimed(its, w - 1)]

EmptyResults(its) == [i \in 1..Len(its) |-> <<>>]

\* mapWithConcurrency(its, lim, mapper) called for account k, up to its
\* `await Promise.all(workers)`: the workers are launched, each with its first
\* request; with no worker the call resolves at once, every slot empty.
MapWithConcurrency(its, lim, k, repoMap, pending, history) ==
    LET launched == LaunchWorkers(its, lim)
        requests == [w \in DOMAIN launched |->
                       PullsRequest(launched[w], accounts[k].token, w, k)]
    IN
    /\ items' = its
    /\ limit' = lim
    /\ nextIndex' = Len(launched)
    /\ results' = EmptyResults(its)
    /\ workers' = launched
    /\ IF launched = <<>>
       THEN /\ mapState' = "fulfilled"
            /\ AfterFanOut(repoMap, EmptyResults(its), pending, history)
       ELSE /\ mapState' = "pending"
            /\ pc' = "fanout"
            /\ repositoryById' = repoMap
            /\ inflight' = pending \cup { requests[w] : w \in DOMAIN requests }
            /\ log' = history \o [w \in DOMAIN requests |-> Requested(requests[w])]
            /\ UNCHANGED <<acct, page, listed, received, pullRequestById,
                           returned, thrown>>

(***************************************************************************)
(* loadDashboardConfig settles.                                            *)
(***************************************************************************)
LoadConfig ==
    /\ pc = "config"
    /\ \E cfg \in ConfigResults :
         /\ accounts' = cfg.accounts
         /\ warnings' = cfg.warnings
         /\ configPath' = cfg.configPath
         /\ StartAccount(1, cfg.accounts, inflight, log)
    /\ UNCHANGED <<home, dashboardData, loadError, suspended>>
    /\ UNCHANGED <<configFile, paginateCall, pagination, clientState>>
    /\ UNCHANGED <<repositoryById, pullRequestById, items, limit, nextIndex,
                   results, workers, mapState, returned, thrown, discovered,
                   listings, budget>>

\* A configuration error that surfaces only after the first account's
\* discovery has been requested.
LoadConfigFailsLate ==
    LET req == Request(ReposPath(1), AcctBob.token, 0, <<1, -1>>) IN
    /\ pc = "config"
    /\ \E message \in ConfigErrors :
         thrown' = <<[message |-> message]>>
    /\ pc' = "thrown"
    /\ inflight' = {req}
    /\ log' = <<Requested(req)>>
    /\ UNCHANGED <<home, dashboardData, loadError, suspended>>
    /\ UNCHANGED <<configFile, paginateCall, pagination, clientState>>
    /\ UNCHANGED <<budget, accounts, warnings, configPath, acct, page, listed,
                   repositoryById, pullRequestById, items, limit, nextIndex,
                   results, workers, mapState, returned, received, discovered,
                   listings>>

LoadConfigFails ==
    /\ pc = "config"
    /\ \E message \in ConfigErrors :
         thrown' = <<[message |-> message]>>
    /\ pc' = "thrown"
    /\ UNCHANGED <<home, dashboardData, loadError, suspended>>
    /\ UNCHANGED <<configFile, paginateCall, pagination, clientState>>
    /\ UNCHANGED <<budget, accounts, warnings, configPath, acct, page, listed,
                   repositoryById, pullRequestById, items, limit, nextIndex,
                   results, workers, mapState, inflight, returned, log,
                   received, discovered, listings>>

(***************************************************************************)
(* listAccessibleRepos: the answer to the page awaited.                    *)
(***************************************************************************)
\* A failed page is requested once more before the error is thrown.
ListReposFailsRetryOnce ==
    /\ pc = "discover"
    /\ \E req \in inflight, response \in ErrorResponses :
         /\ req.worker = 0
         /\ IF \E i \in DOMAIN log : log[i] = Answered(req, -1)
            THEN /\ inflight' = inflight \ {req}
                 /\ log' = Append(log, Answered(req, -1))
                 /\ thrown' = <<GitHubError(response, req.path)>>
                 /\ pc' = "thrown"
            ELSE /\ log' = log \o <<Answered(req, -1), Requested(req)>>
                 /\ UNCHANGED <<inflight, thrown, pc>>
    /\ UNCHANGED <<home, dashboardData, loadError, suspended>>
    /\ UNCHANGED <<configFile, paginateCall, pagination, clientState>>
    /\ UNCHANGED <<budget, accounts, warnings, configPath, acct, page, listed,
                   repositoryById, pullRequestById, items, limit, nextIndex,
                   results, workers, mapState, returned, received, discovered,
                   listings>>

ListReposFails ==
    /\ pc = "discover"
    /\ \E req \in inflight, response \in ErrorResponses :
         /\ req.worker = 0
         /\ inflight' = inflight \ {req}
         /\ log' = Append(log, Answered(req, -1))
         /\ thrown' = <<GitHubError(response, req.path)>>
    /\ pc' = "thrown"
    /\ UNCHANGED <<home, dashboardData, loadError, suspended>>
    /\ UNCHANGED <<configFile, paginateCall, pagination, clientState>>
    /\ UNCHANGED <<budget, accounts, warnings, configPath, acct, page, listed,
                   repositoryById, pullRequestById, items, limit, nextIndex,
                   results, workers, mapState, returned, received, discovered,
                   listings>>

\* The page does not end the listing: the loop requests the next one.
ListReposNextPage ==
    /\ pc = "discover"
    /\ \E req \in inflight, batch \in RepoPages(page, budget) :
         /\ req.worker = 0
         /\ ~IsLastPage(batch)
         /\ LET next == Request(ReposPath(page + 1), req.token, 0, req.call) IN
            /\ listed' = PageAppend(listed, batch)
            /\ received' = Append(received, batch)
            /\ page' = page + 1
            /\ inflight' = (inflight \ {req}) \cup {next}
            /\ log' = log \o <<Answered(req, Len(batch)), Requested(next)>>
            /\ budget' = Spend(budget, batch)
    /\ UNCHANGED <<home, dashboardData, loadError, suspended>>
    /\ UNCHANGED <<configFile, paginateCall, pagination, clientState>>
    /\ UNCHANGED <<pc, accounts, warnings, configPath, acct, repositoryById,
                   pullRequestById, items, limit, nextIndex, results, workers,
                   mapState, returned, thrown, discovered, listings>>

\* The page ends the listing; the account's repositories are filtered and
\* merged, and the fetches of its candidates are launched.
ListReposDone ==
    /\ pc = "discover"
    /\ \E req \in inflight, batch \in RepoPages(page, budget) :
         /\ req.worker = 0
         /\ IsLastPage(batch)
         /\ LET account == accounts[acct]
                repositories == FilterRepositories(account,
                                                   PageAppend(listed, batch))
                repoMap == MergeRepositories(repositoryById, repositories,
                                             account.name)
                candidateRepos == CandidateRepos(repositories)
            IN
            /\ discovered' = Append(discovered,
                                    [pages |-> Append(received, batch),
                                     listed |-> PageAppend(listed, batch),
                                     repositories |-> repositories])
            /\ budget' = Spend(budget, batch)
            /\ MapWithConcurrency(candidateRepos, REPO_FETCH_CONCURRENCY, acct,
                                  repoMap, inflight \ {req},
                                  Append(log, Answered(req, Len(batch))))
    /\ UNCHANGED <<home, dashboardData, loadError, suspended>>
    /\ UNCHANGED <<configFile, paginateCall, pagination, clientState>>
    /\ UNCHANGED <<accounts, warnings, configPath, listings>>

(***************************************************************************)
(* listRepoOpenPullRequests inside worker w: the answer to the page the    *)
(* worker awaits.  The workers of a call keep running after the call has   *)
(* rejected.                                                               *)
(***************************************************************************)
\* Promise.allSettled in the place of Promise.all.
PromiseAllSettled(all) ==
    IF \A v \in DOMAIN all : all[v].status # "awaiting" THEN "fulfilled"
    ELSE "pending"

\* Promise.race-like: resolved as soon as one worker has ended.
PromiseAny(all) ==
    IF \E v \in DOMAIN all : all[v].status = "rejected" THEN "rejected"
    ELSE IF \E v \in DOMAIN all : all[v].status = "fulfilled" THEN "fulfilled"
    ELSE "pending"

\* A Promise.all that stays pending when a worker rejects.
PromiseAllFulfilledOnly(all) ==
    IF \A v \in DOMAIN all : all[v].status = "fulfilled" THEN "fulfilled"
    ELSE "pending"

\* Promise.all(workers) as the worker() promises stand.
PromiseAll(all) ==
    IF \E v \in DOMAIN all : all[v].status = "rejected" THEN "rejected"
    ELSE IF \A v \in DOMAIN all : all[v].status = "fulfilled" THEN "fulfilled"
    ELSE "pending"

\* A call that reports the error of the latest failure, also after it has
\* rejected.
SettleLatestError(all, repoMap, stored, pending, history, error) ==
    IF mapState = "pending" /\ PromiseAll(all) = "fulfilled"
    THEN /\ mapState' = "fulfilled"
         /\ AfterFanOut(repoMap, stored, pending, history)
    ELSE /\ repositoryById' = repoMap
         /\ inflight' = pending
         /\ log' = history
         /\ UNCHANGED <<acct, page, listed, received, pullRequestById, returned>>
         /\ IF PromiseAll(all) = "rejected" /\ error # <<>>
            THEN /\ mapState' = "rejected"
                 /\ pc' = "thrown"
                 /\ thrown' = error
            ELSE UNCHANGED <<mapState, pc, thrown>>

\* A worker() promise has settled.  While mapWithConcurrency is pending it
\* resolves once all have fulfilled, and fetchDashboardPullRequests goes on;
\* it rejects with the first error, and fetchDashboardPullRequests with it.
Settle(all, repoMap, stored, pending, history, error) ==
    IF mapState = "pending" /\ PromiseAll(all) = "fulfilled"
    THEN /\ mapState' = "fulfilled"
         /\ AfterFanOut(repoMap, stored, pending, history)
    ELSE /\ repositoryById' = repoMap
         /\ inflight' = pending
         /\ log' = history
         /\ UNCHANGED <<acct, page, listed, received, pullRequestById, returned>>
         /\ IF mapState = "pending" /\ PromiseAll(all) = "rejected"
            THEN /\ mapState' = "rejected"
                 /\ pc' = "thrown"
                 /\ thrown' = error
            ELSE UNCHANGED <<mapState, pc, thrown>>

\* A worker that reports the failure and goes on to the next index.
PullsFailsGoesOn(w) ==
    /\ workers[w].status = "awaiting"
    /\ \E req \in inflight, response \in ErrorResponses :
         /\ req.worker = w
         /\ LET more == nextIndex < Len(items)
                after == IF more THEN Claimed(items, nextIndex)
                         ELSE [workers[w] EXCEPT !.status = "rejected"]
                next == PullsRequest(after, accounts[acct].token, w, acct)
                history == Append(log, Answered(req, -1))
            IN
            /\ workers' = [workers EXCEPT ![w] = after]
            /\ nextIndex' = IF more THEN nextIndex + 1 ELSE nextIndex
            /\ inflight' = (inflight \ {req}) \cup (IF more THEN {next} ELSE {})
            /\ log' = IF more THEN Append(history, Requested(next)) ELSE history
            /\ IF mapState = "pending"
               THEN /\ mapState' = "rejected"
                    /\ pc' = "thrown"
                    /\ thrown' = <<GitHubError(response, req.path)>>
               ELSE UNCHANGED <<mapState, pc, thrown>>
    /\ UNCHANGED <<home, dashboardData, loadError, suspended>>
    /\ UNCHANGED <<configFile, paginateCall, pagination, clientState>>
    /\ UNCHANGED <<budget, accounts, warnings, configPath, items, limit,
                   results, discovered, listings, acct, page, listed, received,
                   repositoryById, pullRequestById, returned>>

\* The mapper throws and the worker() promise rejects.
PullsFails(w) ==
    /\ workers[w].status = "awaiting"
    /\ \E req \in inflight, response \in ErrorResponses :
         /\ req.worker = w
         /\ LET all == [workers EXCEPT ![w].status = "rejected"] IN
            /\ workers' = all
            /\ Settle(all, repositoryById, results, inflight \ {req},
                      Append(log, Answered(req, -1)),
                      <<GitHubError(response, req.path)>>)
    /\ UNCHANGED <<home, dashboardData, loadError, suspended>>
    /\ UNCHANGED <<configFile, paginateCall, pagination, clientState>>
    /\ UNCHANGED <<budget, accounts, warnings, configPath, items, limit,
                   nextIndex, results, discovered, listings>>

\* The page does not end the listing: the loop requests the next one.
PullsNextPage(w) ==
    /\ workers[w].status = "awaiting"
    /\ \E req \in inflight, batch \in PullPages(workers[w].page, budget) :
         /\ req.worker = w
         /\ ~IsLastPage(batch)
         /\ LET worker == [workers[w] EXCEPT
                             !.page = @ + 1,
                             !.pullRequests = PageAppend(@, batch),
                             !.received = Append(@, batch)]
                next == PullsRequest(worker, req.token, w, req.call[1]) IN
            /\ workers' = [workers EXCEPT ![w] = worker]
            /\ inflight' = (inflight \ {req}) \cup {next}
            /\ log' = log \o <<Answered(req, Len(batch)), Requested(next)>>
            /\ budget' = Spend(budget, batch)
    /\ UNCHANGED <<home, dashboardData, loadError, suspended>>
    /\ UNCHANGED <<configFile, paginateCall, pagination, clientState>>
    /\ UNCHANGED <<pc, accounts, warnings, configPath, acct, page, listed,
                   repositoryById, pullRequestById, items, limit, nextIndex,
                   results, mapState, returned, thrown, received, discovered,
                   listings>>

\* results.push(value): the values in the order the fetches complete.
StoreInCompletionOrder(array, currentIndex, value) ==
    LET free == CHOOSE i \in DOMAIN array :
                  array[i] = <<>> /\ \A j \in 1..(i - 1) : array[j] # <<>>
    IN  [array EXCEPT ![free] = <<value>>]

\* results[currentIndex] = value.
Store(array, currentIndex, value) ==
    [array EXCEPT ![currentIndex + 1] = <<value>>]

\* The page ends the listing: the mapper records the count and returns, the
\* worker stores the value at the index it claimed, and then claims the next
\* index or ends.
PullsDone(w) ==
    /\ workers[w].status = "awaiting"
    /\ \E req \in inflight, batch \in PullPages(workers[w].page, budget) :
         /\ req.worker = w
         /\ IsLastPage(batch)
         /\ LET account == accounts[acct]
                worker == workers[w]
                repoPullRequests == PageAppend(worker.pullRequests, batch)
                repoMap == RecordCount(repositoryById, worker.repo,
                                       repoPullRequests)
                value == MapperValue(worker.repo, account, repoPullRequests)
                stored == Store(results, worker.currentIndex, value)
                more == nextIndex < Len(items)
                after == IF more THEN Claimed(items, nextIndex)
                         ELSE [worker EXCEPT !.status = "fulfilled",
                                             !.page = 0,
                                             !.pullRequests = <<>>,
                                             !.received = <<>>]
                all == [workers EXCEPT ![w] = after]
                next == PullsRequest(after, account.token, w, acct)
                pending == inflight \ {req}
                history == Append(log, Answered(req, Len(batch)))
            IN
            /\ listings' = listings \cup
                             {[call |-> req.call,
                               repo |-> worker.repo,
                               pages |-> Append(worker.received, batch),
                               pullRequests |-> repoPullRequests]}
            /\ budget' = Spend(budget, batch)
            /\ results' = stored
            /\ workers' = all
            /\ nextIndex' = IF more THEN nextIndex + 1 ELSE nextIndex
            /\ IF more
               THEN /\ repositoryById' = repoMap
                    /\ inflight' = pending \cup {next}
                    /\ log' = Append(history, Requested(next))
                    /\ UNCHANGED <<pc, acct, page, listed, received,
                                   pullRequestById, mapState, returned, thrown>>
               ELSE Settle(all, repoMap, stored, pending, history, <<>>)
    /\ UNCHANGED <<home, dashboardData, loadError, suspended>>
    /\ UNCHANGED <<configFile, paginateCall, pagination, clientState>>
    /\ UNCHANGED <<accounts, warnings, configPath, items, limit, discovered>>

(***************************************************************************)
(* Home: the page resumes from `await fetchDashboardPullRequests()` with   *)
(* the value or in the catch block, and renders DashboardClient.           *)
(***************************************************************************)
\* A catch block that reports every error as "Unknown error".
HomeUnknownError ==
    /\ home = "awaiting"
    /\ pc \in {"returned", "thrown"}
    /\ home' = "render"
    /\ IF pc = "returned"
       THEN dashboardData' = returned /\ UNCHANGED loadError
       ELSE loadError' = <<"Unknown error">> /\ UNCHANGED dashboardData
    /\ UNCHANGED <<pc, accounts, warnings, configPath, acct, page, listed,
                   repositoryById, pullRequestById, items, limit, nextIndex,
                   results, workers, mapState, inflight, returned, thrown, log,
                   received, discovered, listings, budget, suspended>>
    /\ UNCHANGED <<configFile, paginateCall, pagination, clientState>>

Home ==
    /\ home = "awaiting"
    /\ pc \in {"returned", "thrown"}
    /\ home' = "render"
    /\ IF pc = "returned"
       THEN dashboardData' = returned /\ UNCHANGED loadError
       ELSE loadError' = <<ErrorMessage(thrown[1])>> /\ UNCHANGED dashboardData
    /\ UNCHANGED <<pc, accounts, warnings, configPath, acct, page, listed,
                   repositoryById, pullRequestById, items, limit, nextIndex,
                   results, workers, mapState, inflight, returned, thrown, log,
                   received, discovered, listings, budget, suspended>>
    /\ UNCHANGED <<configFile, paginateCall, pagination, clientState>>

\* What DashboardClient renders for its props.
DashboardClient(data, error) ==
    IF error # <<>> /\ error[1] # "" THEN "Failed to load dashboard"
    ELSE IF data = <<>> THEN "No dashboard data available."
    ELSE "dashboard"

(***************************************************************************)
(* Display pagination of DashboardClient.                                  *)
(***************************************************************************)
MaxShown == 21

\* router.replace calls that may await their completion at once.
MaxPending == 2

ITEMS_PER_PAGE == 10

\* Math.ceil(a / b) for a >= 0, b > 0.
Ceil(a, b) == (a + b - 1) \div b

\* items.slice(startIndex, endIndexExclusive)
Slice(array, startIndex, endIndexExclusive) ==
    SubSeq(array, startIndex + 1, endIndexExclusive)

\* A paginate that counts full pages only.
paginateFullPages(array, requestedPage, pageSize) ==
    LET totalItems == Len(array)
        totalPages == Max(1, totalItems \div pageSize)
        currentPage == Min(Max(requestedPage, 1), totalPages)
        startIndex == (currentPage - 1) * pageSize
        endIndexExclusive == Min(startIndex + pageSize, totalItems)
    IN  [items |-> Slice(array, startIndex, endIndexExclusive),
         currentPage |-> currentPage,
         totalPages |-> totalPages,
         totalItems |-> totalItems,
         startItem |-> IF totalItems = 0 THEN 0 ELSE startIndex + 1,
         endItem |-> endIndexExclusive]

paginate(array, requestedPage, pageSize) ==
    LET totalItems == Len(array)
        totalPages == Max(1, Ceil(totalItems, pageSize))
        currentPage == Min(Max(requestedPage, 1), totalPages)
        startIndex == (currentPage - 1) * pageSize
        endIndexExclusive == Min(startIndex + pageSize, totalItems)
    IN  [items |-> Slice(array, startIndex, endIndexExclusive),
         currentPage |-> currentPage,
         totalPages |-> totalPages,
         totalItems |-> totalItems,
         startItem |-> IF totalItems = 0 THEN 0 ELSE startIndex + 1,
         endItem |-> endIndexExclusive]

\* PaginationControls: the pages its buttons call onChange with; it renders
\* nothing for a single page, Previous only after page 1 and Next only
\* before the last page.
PaginationControls(currentPage, totalPages) ==
    IF totalPages <= 1 THEN {}
    ELSE (IF currentPage > 1 THEN { Max(1, currentPage - 1) } ELSE {})
         \cup
         (IF currentPage < totalPages
          THEN { Min(totalPages, currentPage + 1) }
          ELSE {})

(***************************************************************************)
(* DashboardClient: what it is given, and its page selections.  The page   *)
(* figures depend on how many items each organization has, not on their    *)
(* order, so the lists are taken in the order given.                       *)
(***************************************************************************)
\* n items of one organization.
ItemsOf(organization, n) ==
    [i \in 1..n |-> [organization |-> organization, number |-> i]]

\* The dashboardData DashboardClient may be rendered with.
ClientData ==
    { [pullRequests |-> ItemsOf("acme", 12) \o ItemsOf("other", 21),
       repositories |-> ItemsOf("acme", 11) \o ItemsOf("other", 12)
                          \o ItemsOf("zeta", 1)],
      [pullRequests |-> ItemsOf("acme", 3) \o ItemsOf("other", 11),
       repositories |-> ItemsOf("acme", 21)] }

\* searchParams.get(name): null (<<>>) or the value.
SearchParamValues ==
    { <<>>, <<"">>, <<"pulls">>, <<"repos">>, <<"all">>, <<"org">>,
      <<"newest">>, <<"oldest">>, <<"PULLS">> }

\* The query strings the page may be opened with: nothing, a parameter of
\* another feature, one tab value of each kind, and queries that differ in
\* the presence, the order, the validity and the repetition of the three
\* parameters.
InitialSearches ==
    { <<>>,
      <<<<"q", "1">>>>,
      <<<<"tab", "pulls">>, <<"view", "all">>, <<"sort", "oldest">>>>,
      <<<<"tab", "repos">>, <<"view", "org">>, <<"sort", "newest">>>>,
      <<<<"sort", "oldest">>, <<"q", "1">>, <<"tab", "PULLS">>>>,
      <<<<"tab", "">>, <<"view", "pulls">>, <<"sort", "all">>>>,
      <<<<"view", "all">>, <<"tab", "pulls">>>>,
      <<<<"tab", "newest">>, <<"view", "repos">>, <<"sort", "org">>>>,
      <<<<"tab", "repos">>, <<"q", "1">>, <<"tab", "pulls">>>> }
      \cup { <<<<"tab", value[1]>>>> : value \in SearchParamValues \ {<<>>} }

parseTabMode(value) ==
    IF value = <<"pulls">> \/ value = <<"repos">> THEN value ELSE <<>>

parseViewMode(value) ==
    IF value = <<"all">> \/ value = <<"org">> THEN value ELSE <<>>

parseSortMode(value) ==
    IF value = <<"newest">> \/ value = <<"oldest">> THEN value ELSE <<>>

\* value ?? fallback
Coalesce(value, fallback) == IF value = <<>> THEN fallback ELSE value[1]

\* groupPullRequestsByOrganization, groupRepositoriesByOrganization: the
\* items of each organization that has any.
GroupByOrganization(list) ==
    [organization \in { list[i].organization : i \in DOMAIN list } |->
       SelectSeq(list, LAMBDA item : item.organization = organization)]

\* pullOrgPages[organization] ?? 1
PageOf(pages, organization) ==
    IF organization \in DOMAIN pages THEN pages[organization] ELSE 1

\* ({ [organization]: page }): the other organizations' pages are dropped.
SetPageOnly(current, organization, newPage) == (organization :> newPage)

\* (current) => ({ ...current, [organization]: page })
SetPage(current, organization, newPage) ==
    (organization :> newPage) @@ current

\* A query string is the sequence of its <<key, value>> pairs: the strings
\* toString() gives are equal exactly when the sequences are.
\* URLSearchParams.get: the first value of the key, or null.
ParamsGet(params, key) ==
    IF \E i \in DOMAIN params : params[i][1] = key
    THEN <<params[CHOOSE i \in DOMAIN params :
                    /\ params[i][1] = key
                    /\ \A j \in 1..(i - 1) : params[j][1] # key][2]>>
    ELSE <<>>

\* A set that appends the pair without looking for the key.
ParamsAppend(params, key, value) == Append(params, <<key, value>>)

\* URLSearchParams.set: the first pair of the key takes the value and the
\* key's other pairs are removed; a key not present is appended.
ParamsSet(params, key, value) ==
    IF \E i \in DOMAIN params : params[i][1] = key
    THEN LET first == CHOOSE i \in DOMAIN params :
                        /\ params[i][1] = key
                        /\ \A j \in 1..(i - 1) : params[j][1] # key
         IN  SubSeq(params, 1, first - 1)
               \o <<<<key, value>>>>
               \o SelectSeq(SubSeq(params, first + 1, Len(params)),
                            LAMBDA pair : pair[1] # key)
    ELSE Append(params, <<key, value>>)

\* The effect's nextSearch: the current query with tab, view and sort set.
\* The three sets are made one after the other, each on the value the one
\* before has given.
NextSearch(currentSearch, tab, view, sort) ==
    CHOOSE nextSearch \in
        { ParamsSet(withView, "sort", sort) :
            withView \in { ParamsSet(withTab, "view", view) :
                             withTab \in { ParamsSet(currentSearch, "tab",
                                                     tab) } } } : TRUE

\* An effect that calls router.replace whenever the target differs from
\* the current query, without looking at lastSyncedSearchRef.
SyncEffectUnguarded(currentSearch, tab, view, sort, lastSynced, pending) ==
    LET nextSearch == NextSearch(currentSearch, tab, view, sort) IN
    IF nextSearch # currentSearch
    THEN /\ lastSyncedSearchRef' = <<nextSearch>>
         /\ replaces' = Append(pending, nextSearch)
    ELSE /\ lastSyncedSearchRef' = lastSynced
         /\ replaces' = pending

\* An effect that records the target but never calls router.replace.
SyncEffectSilent(currentSearch, tab, view, sort, lastSynced, pending) ==
    LET nextSearch == NextSearch(currentSearch, tab, view, sort) IN
    /\ lastSyncedSearchRef' = <<nextSearch>>
    /\ replaces' = pending

\* The URL-sync effect, run after a render in which searchParams, tabMode,
\* viewMode or sortMode has changed: lastSynced is lastSyncedSearchRef.current
\* and pending the router.replace calls awaiting completion.
SyncEffect(currentSearch, tab, view, sort, lastSynced, pending) ==
    LET nextSearch == NextSearch(currentSearch, tab, view, sort) IN
    IF nextSearch # currentSearch /\ lastSynced # <<nextSearch>>
    THEN /\ lastSyncedSearchRef' = <<nextSearch>>
         /\ replaces' = Append(pending, nextSearch)
    ELSE /\ lastSyncedSearchRef' = lastSynced
         /\ replaces' = pending

\* The dashboard is rendered: there is data and no error.
Rendered == dashboardData # <<>> /\ loadError = <<>>

fetchFrame == <<pc, accounts, warnings, configPath, acct, page, listed,
                repositoryById, pullRequestById, items, limit, nextIndex,
                results, workers, mapState, inflight, returned, thrown, log,
                received, discovered, listings, budget, home, suspended,
                configFile, paginateCall, pagination>>

switchTab(nextTab) ==
    /\ Rendered
    /\ tabMode' = nextTab
    /\ UNCHANGED <<viewMode, sortMode, allPullPage, pullOrgPages, repoOrgPages,
                   searchParams, lastSyncedSearchRef, replaces,
                   dashboardData, loadError, fetchFrame>>

switchView(nextView) ==
    /\ Rendered
    /\ tabMode = "pulls"
    /\ viewMode' = nextView
    /\ allPullPage' = 1
    /\ UNCHANGED <<tabMode, sortMode, pullOrgPages, repoOrgPages,
                   searchParams, lastSyncedSearchRef, replaces,
                   dashboardData, loadError, fetchFrame>>

\* A sort switch that leaves the per-organization pull-request pages.
switchSortKeepsPages(nextSort) ==
    /\ Rendered
    /\ tabMode = "pulls"
    /\ sortMode' = nextSort
    /\ allPullPage' = 1
    /\ UNCHANGED <<tabMode, viewMode, pullOrgPages, repoOrgPages, searchParams,
                   lastSyncedSearchRef, replaces, dashboardData, loadError,
                   fetchFrame>>

switchSort(nextSort) ==
    /\ Rendered
    /\ tabMode = "pulls"
    /\ sortMode' = nextSort
    /\ allPullPage' = 1
    /\ pullOrgPages' = <<>>
    /\ UNCHANGED <<tabMode, viewMode, repoOrgPages, searchParams,
                   lastSyncedSearchRef, replaces, dashboardData, loadError,
                   fetchFrame>>

\* The useEffect callback, run by React after a render in which one of its
\* dependencies has changed, as a step of its own: the switches run in
\* transitions, so React may render several of them at once and run the
\* effect once on the state they leave.  A run on dependencies it has seen
\* changes nothing.  The hooks run whether or not there is data to show.
UrlSyncEffect ==
    /\ Len(replaces) < MaxPending
    /\ SyncEffect(searchParams, tabMode, viewMode, sortMode,
                  lastSyncedSearchRef, replaces)
    /\ UNCHANGED <<tabMode, viewMode, sortMode, allPullPage, pullOrgPages,
                   repoOrgPages, searchParams, dashboardData, loadError,
                   fetchFrame>>

\* The oldest router.replace completes: useSearchParams() gives the new
\* query from then on.  The router applies navigations in the order asked.
ReplaceCompletes ==
    /\ replaces # <<>>
    /\ searchParams' = Head(replaces)
    /\ replaces' = Tail(replaces)
    /\ UNCHANGED <<tabMode, viewMode, sortMode, allPullPage, pullOrgPages,
                   repoOrgPages, lastSyncedSearchRef, dashboardData, loadError,
                   fetchFrame>>

\* The router drops a navigation that a later one has overtaken.
ReplaceSuperseded ==
    /\ Len(replaces) >= 2
    /\ replaces' = Tail(replaces)
    /\ UNCHANGED <<tabMode, viewMode, sortMode, allPullPage, pullOrgPages,
                   repoOrgPages, searchParams, lastSyncedSearchRef,
                   dashboardData, loadError, fetchFrame>>

\* A button of the PaginationControls under the table of all pull requests.
ChangeAllPullPage ==
    /\ Rendered
    /\ tabMode = "pulls"
    /\ viewMode = "all"
    /\ LET allPullPagination == paginate(dashboardData[1].pullRequests,
                                         allPullPage, ITEMS_PER_PAGE)
       IN  \E newPage \in PaginationControls(allPullPagination.currentPage,
                                             allPullPagination.totalPages) :
             allPullPage' = newPage
    /\ UNCHANGED <<tabMode, viewMode, sortMode, pullOrgPages, repoOrgPages,
                   searchParams, lastSyncedSearchRef, replaces,
                   dashboardData, loadError, fetchFrame>>

\* A button of the PaginationControls of one organization's pull requests.
ChangePullOrgPage(organization) ==
    LET groups == GroupByOrganization(dashboardData[1].pullRequests) IN
    /\ Rendered
    /\ tabMode = "pulls"
    /\ viewMode = "org"
    /\ organization \in DOMAIN groups
    /\ LET requestedPage == PageOf(pullOrgPages, organization)
           result == paginate(groups[organization], requestedPage,
                              ITEMS_PER_PAGE)
       IN  \E newPage \in PaginationControls(result.currentPage,
                                             result.totalPages) :
             pullOrgPages' = SetPage(pullOrgPages, organization, newPage)
    /\ UNCHANGED <<tabMode, viewMode, sortMode, allPullPage, repoOrgPages,
                   searchParams, lastSyncedSearchRef, replaces,
                   dashboardData, loadError, fetchFrame>>

\* A button of the PaginationControls of one organization's repositories.
ChangeRepoOrgPage(organization) ==
    LET groups == GroupByOrganization(dashboardData[1].repositories) IN
    /\ Rendered
    /\ tabMode = "repos"
    /\ organization \in DOMAIN groups
    /\ LET requestedPage == PageOf(repoOrgPages, organization)
           result == paginate(groups[organization], requestedPage,
                              ITEMS_PER_PAGE)
       IN  \E newPage \in PaginationControls(result.currentPage,
                                             result.totalPages) :
             repoOrgPages' = SetPage(repoOrgPages, organization, newPage)
    /\ UNCHANGED <<tabMode, viewMode, sortMode, allPullPage, pullOrgPages,
                   searchParams, lastSyncedSearchRef, replaces,
                   dashboardData, loadError, fetchFrame>>

\* The Refresh button: router.refresh() renders Home again, and the client
\* keeps its state under the new data or the new error.
Refresh ==
    /\ Rendered
    /\ \/ \E data \in ClientData :
            dashboardData' = <<data>> /\ UNCHANGED loadError
       \/ /\ dashboardData' = <<>>
          /\ loadError' = <<"GitHub API 500 for \"/user/repos\": Unknown GitHub API error">>
    /\ UNCHANGED <<clientState, fetchFrame>>

(***************************************************************************)
(* A run against listings that each fit in one page.                       *)
(***************************************************************************)
Next ==
    \/ LoadConfig
    \/ LoadConfigFails
    \/ ListReposFails
    \/ ListReposDone
    \/ \E w \in DOMAIN workers : PullsFails(w)
    \/ \E w \in DOMAIN workers : PullsDone(w)
    \/ Home

Spec == Init /\ [][Next]_vars

(***************************************************************************)
(* A run of one account against listings that span several pages: the      *)
(* state is that reached once loadDashboardConfig has returned the account *)
(* and page 1 of its discovery has been requested.                         *)
(***************************************************************************)
InitPages ==
    LET req == Request(ReposPath(1), AcctAlice.token, 0, <<1, -1>>) IN
    /\ pc = "discover"
    /\ accounts = <<AcctAlice>>
    /\ warnings = <<>>
    /\ configPath = "github-dashboard.yml"
    /\ acct = 1
    /\ page = 1
    /\ listed = <<>>
    /\ repositoryById = <<>>
    /\ pullRequestById = <<>>
    /\ items = <<>>
    /\ limit = 0
    /\ nextIndex = 0
    /\ results = <<>>
    /\ workers = <<>>
    /\ mapState = "none"
    /\ inflight = {req}
    /\ returned = <<>>
    /\ thrown = <<>>
    /\ log = <<Requested(req)>>
    /\ received = <<>>
    /\ discovered = <<>>
    /\ listings = {}
    /\ budget = MaxFullPages
    /\ home = "awaiting"
    /\ dashboardData = <<>>
    /\ loadError = <<>>
    /\ suspended = <<>>
    /\ Idle

NextPages ==
    \/ ListReposFails
    \/ ListReposNextPage
    \/ ListReposDone
    \/ \E w \in DOMAIN workers : PullsFails(w)
    \/ \E w \in DOMAIN workers : PullsNextPage(w)
    \/ \E w \in DOMAIN workers : PullsDone(w)

SpecPages == InitPages /\ [][NextPages]_vars

(***************************************************************************)
(* The same run when GitHub answers: every request that awaits its answer  *)
(* receives one, a page or a non-success status, and the continuation of   *)
(* the await runs.  The API has MaxFullPages full pages to give, so every  *)
(* listing comes to a shorter page.                                        *)
(***************************************************************************)
\* The request of the discovery is answered.
AnswerDiscovery == ListReposFails \/ ListReposNextPage \/ ListReposDone

\* The request of worker w is answered.
AnswerPulls(w) ==
    /\ w \in DOMAIN workers
    /\ PullsFails(w) \/ PullsNextPage(w) \/ PullsDone(w)

Responsive ==
    /\ WF_vars(AnswerDiscovery)
    /\ \A w \in 1..REPO_FETCH_CONCURRENCY : WF_vars(AnswerPulls(w))

SpecResponsive == InitPages /\ [][NextPages]_vars /\ Responsive

(***************************************************************************)
(* mapWithConcurrency for any items and limit: the last account of a run   *)
(* has discovered `items` as its candidates and the call is about to be    *)
(* made with `limit`.                                                      *)
(***************************************************************************)
ItemPool(n) ==
    [i \in 1..n |-> CASE i % 3 = 1 -> RepoGears
                      [] i % 3 = 2 -> RepoWidgets
                      [] OTHER -> RepoLibBusy]

InitMap ==
    /\ pc = "call"
    /\ accounts = <<AcctAlice>>
    /\ warnings = <<>>
    /\ configPath = "github-dashboard.yml"
    /\ acct = 1
    /\ page = 1
    /\ listed = <<>>
    /\ \E n \in 0..MaxItems : items = ItemPool(n)
    /\ limit \in 0..MaxLimit
    /\ repositoryById = MergeRepositories(<<>>, items, AcctAlice.name)
    /\ pullRequestById = <<>>
    /\ nextIndex = 0
    /\ results = <<>>
    /\ workers = <<>>
    /\ mapState = "none"
    /\ inflight = {}
    /\ returned = <<>>
    /\ thrown = <<>>
    /\ log = <<>>
    /\ received = <<>>
    /\ discovered = <<>>
    /\ listings = {}
    /\ budget = 0
    /\ home = "awaiting"
    /\ dashboardData = <<>>
    /\ loadError = <<>>
    /\ suspended = <<>>
    /\ Idle

CallMap ==
    /\ pc = "call"
    /\ MapWithConcurrency(items, limit, acct, repositoryById, inflight, log)
    /\ UNCHANGED <<home, dashboardData, loadError, suspended>>
    /\ UNCHANGED <<configFile, paginateCall, pagination, clientState>>
    /\ UNCHANGED <<budget, accounts, warnings, configPath, discovered, listings>>

NextMap ==
    \/ CallMap
    \/ \E w \in DOMAIN workers : PullsFails(w)
    \/ \E w \in DOMAIN workers : PullsDone(w)

SpecMap == InitMap /\ [][NextMap]_vars

(***************************************************************************)
(* Two invocations of fetchDashboardPullRequests in one process, as for    *)
(* two page requests served at the same time.  Everything an invocation    *)
(* holds is local to its call: the variables above are those of the        *)
(* invocation that runs, `suspended` keeps those of the one that waits,    *)
(* and the event loop may pass from one to the other between any two       *)
(* answers.                                                                *)
(***************************************************************************)
\* The locals of the invocation that runs.
Context ==
    [pc |-> pc,
     accounts |-> accounts,
     warnings |-> warnings,
     configPath |-> configPath,
     acct |-> acct,
     page |-> page,
     listed |-> listed,
     repositoryById |-> repositoryById,
     pullRequestById |-> pullRequestById,
     items |-> items,
     limit |-> limit,
     nextIndex |-> nextIndex,
     results |-> results,
     workers |-> workers,
     mapState |-> mapState,
     inflight |-> inflight,
     returned |-> returned,
     thrown |-> thrown,
     log |-> log,
     received |-> received,
     discovered |-> discovered,
     listings |-> listings,
     budget |-> budget,
     home |-> home,
     dashboardData |-> dashboardData,
     loadError |-> loadError]

\* The invocation with these locals runs on, with these two maps.
Resume(context, repositories, pullRequests) ==
    /\ pc' = context.pc
    /\ accounts' = context.accounts
    /\ warnings' = context.warnings
    /\ configPath' = context.configPath
    /\ acct' = context.acct
    /\ page' = context.page
    /\ listed' = context.listed
    /\ items' = context.items
    /\ limit' = context.limit
    /\ nextIndex' = context.nextIndex
    /\ results' = context.results
    /\ workers' = context.workers
    /\ mapState' = context.mapState
    /\ inflight' = context.inflight
    /\ returned' = context.returned
    /\ thrown' = context.thrown
    /\ log' = context.log
    /\ received' = context.received
    /\ discovered' = context.discovered
    /\ listings' = context.listings
    /\ budget' = context.budget
    /\ home' = context.home
    /\ dashboardData' = context.dashboardData
    /\ loadError' = context.loadError
    /\ repositoryById' = repositories
    /\ pullRequestById' = pullRequests

\* Both invocations use two maps kept at module level.
SwitchSharedMaps ==
    /\ suspended # <<>>
    /\ suspended' = <<Context>>
    /\ Resume(suspended[1], repositoryById, pullRequestById)
    /\ UNCHANGED <<configFile, paginateCall, pagination, clientState>>

\* The event loop turns to the other invocation, which finds its own maps.
Switch ==
    /\ suspended # <<>>
    /\ suspended' = <<Context>>
    /\ Resume(suspended[1], suspended[1].repositoryById,
              suspended[1].pullRequestById)
    /\ UNCHANGED <<configFile, paginateCall, pagination, clientState>>

\* An invocation that has loaded the configuration and requested page 1 of
\* the discovery of its first account.
AfterLoadConfig(cfg) ==
    LET req == Request(ReposPath(1), cfg.accounts[1].token, 0, <<1, -1>>) IN
    [pc |-> "discover", accounts |-> cfg.accounts, warnings |-> cfg.warnings,
     configPath |-> cfg.configPath, acct |-> 1, page |-> 1, listed |-> <<>>,
     repositoryById |-> <<>>, pullRequestById |-> <<>>, items |-> <<>>,
     limit |-> 0, nextIndex |-> 0, results |-> <<>>, workers |-> <<>>,
     mapState |-> "none", inflight |-> {req}, returned |-> <<>>,
     thrown |-> <<>>, log |-> <<Requested(req)>>, received |-> <<>>,
     discovered |-> <<>>, listings |-> {}, budget |-> 0, home |-> "awaiting",
     dashboardData |-> <<>>, loadError |-> <<>>]

\* The invocation that runs has these locals.
Running(context) ==
    /\ pc = context.pc
    /\ accounts = context.accounts
    /\ warnings = context.warnings
    /\ configPath = context.configPath
    /\ acct = context.acct
    /\ page = context.page
    /\ listed = context.listed
    /\ repositoryById = context.repositoryById
    /\ pullRequestById = context.pullRequestById
    /\ items = context.items
    /\ limit = context.limit
    /\ nextIndex = context.nextIndex
    /\ results = context.results
    /\ workers = context.workers
    /\ mapState = context.mapState
    /\ inflight = context.inflight
    /\ returned = context.returned
    /\ thrown = context.thrown
    /\ log = context.log
    /\ received = context.received
    /\ discovered = context.discovered
    /\ listings = context.listings
    /\ budget = context.budget
    /\ home = context.home
    /\ dashboardData = context.dashboardData
    /\ loadError = context.loadError

\* Both invocations read the same configuration, of one account.
InitTwo ==
    \E cfg \in { c \in ConfigResults : Len(c.accounts) = 1 } :
      /\ Running(AfterLoadConfig(cfg))
      /\ suspended = <<AfterLoadConfig(cfg)>>
      /\ Idle

NextTwo ==
    \/ ListReposFails
    \/ ListReposDone
    \/ \E w \in DOMAIN workers : PullsFails(w)
    \/ \E w \in DOMAIN workers : PullsDone(w)
    \/ Home
    \/ Switch

SpecTwo == InitTwo /\ [][NextTwo]_vars

(***************************************************************************)
(* loadDashboardConfig applied to every configuration file of ConfigFiles: *)
(* fetchDashboardPullRequests resumes with its result and requests page 1  *)
(* of the first account's discovery, or rejects with its error.            *)
(***************************************************************************)
InitConfig ==
    /\ pc = "config"
    /\ accounts = <<>>
    /\ warnings = <<>>
    /\ configPath = ""
    /\ acct = 0
    /\ page = 0
    /\ listed = <<>>
    /\ repositoryById = <<>>
    /\ pullRequestById = <<>>
    /\ items = <<>>
    /\ limit = 0
    /\ nextIndex = 0
    /\ results = <<>>
    /\ workers = <<>>
    /\ mapState = "none"
    /\ inflight = {}
    /\ returned = <<>>
    /\ thrown = <<>>
    /\ log = <<>>
    /\ received = <<>>
    /\ discovered = <<>>
    /\ listings = {}
    /\ budget = 0
    /\ home = "awaiting"
    /\ dashboardData = <<>>
    /\ loadError = <<>>
    /\ suspended = <<>>
    /\ configFile \in ConfigFiles
    /\ paginateCall = <<>>
    /\ pagination = <<>>
    /\ tabMode = "repos"
    /\ viewMode = "org"
    /\ sortMode = "newest"
    /\ allPullPage = 1
    /\ pullOrgPages = <<>>
    /\ repoOrgPages = <<>>
    /\ searchParams = <<>>
    /\ lastSyncedSearchRef = <<>>
    /\ replaces = <<>>

LoadDashboardConfig ==
    LET config == loadDashboardConfig(configFile) IN
    /\ pc = "config"
    /\ config.thrown = <<>>
    /\ accounts' = config.accounts
    /\ warnings' = config.warnings
    /\ configPath' = config.configPath
    /\ StartAccount(1, config.accounts, inflight, log)
    /\ UNCHANGED <<home, dashboardData, loadError, suspended>>
    /\ UNCHANGED <<configFile, paginateCall, pagination, clientState>>
    /\ UNCHANGED <<repositoryById, pullRequestById, items, limit, nextIndex,
                   results, workers, mapState, returned, thrown, discovered,
                   listings, budget>>

LoadDashboardConfigThrows ==
    LET config == loadDashboardConfig(configFile) IN
    /\ pc = "config"
    /\ config.thrown # <<>>
    /\ thrown' = <<[message |-> config.thrown[1]]>>
    /\ pc' = "thrown"
    /\ UNCHANGED <<home, dashboardData, loadError, suspended>>
    /\ UNCHANGED <<configFile, paginateCall, pagination, clientState>>
    /\ UNCHANGED <<budget, accounts, warnings, configPath, acct, page, listed,
                   repositoryById, pullRequestById, items, limit, nextIndex,
                   results, workers, mapState, inflight, returned, log,
                   received, discovered, listings>>

NextConfig ==
    \/ LoadDashboardConfig
    \/ LoadDashboardConfigThrows
    \/ Home

SpecConfig == InitConfig /\ [][NextConfig]_vars

(***************************************************************************)
(* paginate applied to every list of up to MaxShown items and to requested *)
(* pages from below 1 to beyond the last page; the list is then paged      *)
(* through with the buttons of PaginationControls.                         *)
(***************************************************************************)
InitPaginate ==
    /\ pc = "config"
    /\ accounts = <<>>
    /\ warnings = <<>>
    /\ configPath = ""
    /\ acct = 0
    /\ page = 0
    /\ listed = <<>>
    /\ repositoryById = <<>>
    /\ pullRequestById = <<>>
    /\ items = <<>>
    /\ limit = 0
    /\ nextIndex = 0
    /\ results = <<>>
    /\ workers = <<>>
    /\ mapState = "none"
    /\ inflight = {}
    /\ returned = <<>>
    /\ thrown = <<>>
    /\ log = <<>>
    /\ received = <<>>
    /\ discovered = <<>>
    /\ listings = {}
    /\ budget = 0
    /\ home = "awaiting"
    /\ dashboardData = <<>>
    /\ loadError = <<>>
    /\ suspended = <<>>
    /\ configFile = <<>>
    /\ \E n \in 0..MaxShown, requestedPage \in -1..(MaxShown \div ITEMS_PER_PAGE + 3) :
         paginateCall = [items |-> [i \in 1..n |-> i],
                         requestedPage |-> requestedPage,
                         pageSize |-> ITEMS_PER_PAGE]
    /\ pagination = <<>>
    /\ tabMode = "repos"
    /\ viewMode = "org"
    /\ sortMode = "newest"
    /\ allPullPage = 1
    /\ pullOrgPages = <<>>
    /\ repoOrgPages = <<>>
    /\ searchParams = <<>>
    /\ lastSyncedSearchRef = <<>>
    /\ replaces = <<>>

\* The list is rendered: paginate is called with the requested page.
Paginate ==
    /\ pagination = <<>>
    /\ pagination' = <<paginate(paginateCall.items, paginateCall.requestedPage,
                                paginateCall.pageSize)>>
    /\ UNCHANGED <<pc, accounts, warnings, configPath, acct, page, listed,
                   repositoryById, pullRequestById, items, limit, nextIndex,
                   results, workers, mapState, inflight, returned, thrown, log,
                   received, discovered, listings, budget, home, dashboardData,
                   loadError, suspended, configFile, paginateCall, clientState>>

\* A button of PaginationControls: onChange(page) stores the page, and the
\* list is rendered again with it.
ChangePage ==
    /\ pagination # <<>>
    /\ \E requestedPage \in PaginationControls(pagination[1].currentPage,
                                               pagination[1].totalPages) :
         /\ paginateCall' = [paginateCall EXCEPT !.requestedPage = requestedPage]
         /\ pagination' = <<paginate(paginateCall.items, requestedPage,
                                     paginateCall.pageSize)>>
    /\ UNCHANGED <<pc, accounts, warnings, configPath, acct, page, listed,
                   repositoryById, pullRequestById, items, limit, nextIndex,
                   results, workers, mapState, inflight, returned, thrown, log,
                   received, discovered, listings, budget, home, dashboardData,
                   loadError, suspended, configFile, clientState>>

NextPaginate ==
    \/ Paginate
    \/ ChangePage

SpecPaginate == InitPaginate /\ [][NextPaginate]_vars

(***************************************************************************)
(* DashboardClient mounted with data, whatever the URL's parameters.       *)
(***************************************************************************)
InitClient ==
    /\ pc = "returned"
    /\ accounts = <<>>
    /\ warnings = <<>>
    /\ configPath = ""
    /\ acct = 0
    /\ page = 0
    /\ listed = <<>>
    /\ repositoryById = <<>>
    /\ pullRequestById = <<>>
    /\ items = <<>>
    /\ limit = 0
    /\ nextIndex = 0
    /\ results = <<>>
    /\ workers = <<>>
    /\ mapState = "none"
    /\ inflight = {}
    /\ returned = <<>>
    /\ thrown = <<>>
    /\ log = <<>>
    /\ received = <<>>
    /\ discovered = <<>>
    /\ listings = {}
    /\ budget = 0
    /\ home = "render"
    /\ \E data \in ClientData : dashboardData = <<data>>
    /\ loadError = <<>>
    /\ suspended = <<>>
    /\ configFile = <<>>
    /\ paginateCall = <<>>
    /\ pagination = <<>>
    /\ \E search \in InitialSearches :
         LET tab == Coalesce(parseTabMode(ParamsGet(search, "tab")), "repos")
             view == Coalesce(parseViewMode(ParamsGet(search, "view")), "org")
             sort == Coalesce(parseSortMode(ParamsGet(search, "sort")),
                              "newest")
         IN  /\ searchParams = search
             /\ tabMode = tab
             /\ viewMode = view
             /\ sortMode = sort
             /\ lastSyncedSearchRef = <<>>
             /\ replaces = <<>>
    /\ allPullPage = 1
    /\ pullOrgPages = <<>>
    /\ repoOrgPages = <<>>

NextClient ==
    \/ \E nextTab \in {"repos", "pulls"} : switchTab(nextTab)
    \/ \E nextView \in {"org", "all"} : switchView(nextView)
    \/ \E nextSort \in {"newest", "oldest"} : switchSort(nextSort)
    \/ ChangeAllPullPage
    \/ \E organization \in {"acme", "other", "zeta"} :
         ChangePullOrgPage(organization)
    \/ \E organization \in {"acme", "other", "zeta"} :
         ChangeRepoOrgPage(organization)
    \/ Refresh

SpecClient == InitClient /\ [][NextClient]_vars

(***************************************************************************)
(* DashboardClient and the router: the switches, the URL-sync effect and   *)
(* the completion of the navigations it asks for, with data that fits in   *)
(* one page, so that no page button is offered.  The switches and the page *)
(* buttons neither read nor write the query, the ref or the navigations,   *)
(* and the effect and the router neither read nor write the pages or the   *)
(* data: SpecClient is this system seen without its effect, SpecSync       *)
(* without its page buttons.                                               *)
(***************************************************************************)
SyncData ==
    [pullRequests |-> ItemsOf("acme", 2), repositories |-> ItemsOf("acme", 1)]

InitSync ==
    /\ pc = "returned"
    /\ accounts = <<>>
    /\ warnings = <<>>
    /\ configPath = ""
    /\ acct = 0
    /\ page = 0
    /\ listed = <<>>
    /\ repositoryById = <<>>
    /\ pullRequestById = <<>>
    /\ items = <<>>
    /\ limit = 0
    /\ nextIndex = 0
    /\ results = <<>>
    /\ workers = <<>>
    /\ mapState = "none"
    /\ inflight = {}
    /\ returned = <<>>
    /\ thrown = <<>>
    /\ log = <<>>
    /\ received = <<>>
    /\ discovered = <<>>
    /\ listings = {}
    /\ budget = 0
    /\ home = "render"
    /\ dashboardData = <<SyncData>>
    /\ loadError = <<>>
    /\ suspended = <<>>
    /\ configFile = <<>>
    /\ paginateCall = <<>>
    /\ pagination = <<>>
    /\ \E search \in InitialSearches :
         /\ searchParams = search
         /\ tabMode = Coalesce(parseTabMode(ParamsGet(search, "tab")), "repos")
         /\ viewMode = Coalesce(parseViewMode(ParamsGet(search, "view")), "org")
         /\ sortMode = Coalesce(parseSortMode(ParamsGet(search, "sort")),
                                "newest")
    /\ lastSyncedSearchRef = <<>>
    /\ replaces = <<>>
    /\ allPullPage = 1
    /\ pullOrgPages = <<>>
    /\ repoOrgPages = <<>>

NextSync ==
    \/ \E nextTab \in {"repos", "pulls"} : switchTab(nextTab)
    \/ \E nextView \in {"org", "all"} : switchView(nextView)
    \/ \E nextSort \in {"newest", "oldest"} : switchSort(nextSort)
    \/ UrlSyncEffect
    \/ ReplaceCompletes
    \/ ReplaceSuperseded

SpecSync == InitSync /\ [][NextSync]_vars

\* React runs the effect of a render it has committed, and the router
\* completes the navigation it has been asked for.
Scheduled == WF_vars(UrlSyncEffect) /\ WF_vars(ReplaceCompletes)

SpecSyncFair == InitSync /\ [][NextSync]_vars /\ Scheduled

(***************************************************************************)
(* Properties.                                                             *)
(***************************************************************************)
Range(seq) == { seq[i] : i \in DOMAIN seq }

FullNames(repos) == { repos[i].full_name : i \in DOMAIN repos }

\* Positions of the accounts whose filtered discovery holds the full name.
Discoverers(fullName) ==
    { k \in DOMAIN discovered : fullName \in FullNames(discovered[k].repositories) }

IsFailure(event) == event.kind = "response" /\ event.size = -1

SomeRequestFailed == \E i \in DOMAIN log : IsFailure(log[i])

\* C1: once any request of the run (a discovery page or a pull-request page,
\* of any account) has received a non-success answer, the call has thrown and
\* has returned nothing, whatever had been merged before.
C1_FailFast ==
    SomeRequestFailed => pc = "thrown" /\ thrown # <<>> /\ returned = <<>>

\* A pull-request fetch of the second account fails after the first account's
\* repositories and pull requests have been merged.
C1_Witness ==
    /\ pc = "thrown"
    /\ returned = <<>>
    /\ acct = 2
    /\ repositoryById # <<>>
    /\ pullRequestById # <<>>
    /\ \E i \in DOMAIN log :
         IsFailure(log[i]) /\ log[i].request.call[1] = 2
                           /\ log[i].request.call[2] >= 0

\* C2: the ids of the returned repositories are the union of the full names
\* the accounts discovered after their organization filter, each id once.
C2_UnionOfVisibilityKeys ==
    pc = "returned" =>
      LET repos == returned[1].repositories IN
      /\ Len(discovered) = Len(accounts)
      /\ { repos[i].id : i \in DOMAIN repos } =
           UNION { FullNames(discovered[k].repositories) : k \in DOMAIN discovered }
      /\ \A i, j \in DOMAIN repos : i # j => repos[i].id # repos[j].id

\* Two accounts have discovered the same repository and the result holds it
\* along with another one.
C2_Witness ==
    /\ pc = "returned"
    /\ Len(discovered) = 2
    /\ FullNames(discovered[1].repositories)
         \cap FullNames(discovered[2].repositories) # {}
    /\ Len(returned[1].repositories) >= 2

\* C3: in the result, the accounts of a repository are the names of exactly
\* the accounts whose filtered discovery held its full name, in collation
\* order and without duplicates.
C3_UnionOfVisibilityAccounts ==
    pc = "returned" =>
      \A repo \in Range(returned[1].repositories) :
        /\ Range(repo.accounts) = { accounts[k].name : k \in Discoverers(repo.id) }
        /\ \A i, j \in DOMAIN repo.accounts :
             i < j => localeCompare(repo.accounts[i], repo.accounts[j]) < 0

\* "Bob" discovered a repository before "alice" did: the result lists alice
\* first.
C3_Witness ==
    /\ pc = "returned"
    /\ accounts = <<AcctBob, AcctAlice>>
    /\ \E repo \in Range(returned[1].repositories) :
         /\ Discoverers(repo.id) = {1, 2}
         /\ repo.accounts = <<"alice", "Bob">>

\* Every sighting of a pull request in the listings fetched so far: the
\* account, the index of the repository among its candidates, the position in
\* the listing, and the entry the mapper made of it.
Sightings ==
    UNION { { [account |-> l.call[1],
               index |-> l.call[2],
               position |-> j,
               id |-> PullRequestId(l.repo, l.pullRequests[j]),
               entry |-> MapperValue(l.repo, accounts[l.call[1]],
                                     l.pullRequests)[j]] :
              j \in DOMAIN l.pullRequests } : l \in listings }

\* Processing order: by account, then by candidate, then by position.
Precedes(s, t) ==
    \/ s.account < t.account
    \/ s.account = t.account /\ s.index < t.index
    \/ s.account = t.account /\ s.index = t.index /\ s.position < t.position

\* C4: a pull request id found in the listings of several accounts is in the
\* result exactly once, attributed to the first of these accounts in
\* processing order, with the field values of its first sighting.
C4_PullRequestDedup ==
    pc = "returned" =>
      LET prs == returned[1].pullRequests IN
      \A s \in Sightings :
        /\ Cardinality({ i \in DOMAIN prs : prs[i].id = s.id }) = 1
        /\ \A i \in DOMAIN prs :
             prs[i].id = s.id =>
               /\ accounts[s.account].name = prs[i].account
                    \/ \E t \in Sightings : t.id = s.id /\ t.account < s.account
               /\ prs[i] = s.entry
                    \/ \E t \in Sightings : t.id = s.id /\ Precedes(t, s)

\* Two accounts have listed the same pull request id with different titles.
C4_Witness ==
    /\ pc = "returned"
    /\ \E s, t \in Sightings :
         /\ s.id = t.id
         /\ s.account < t.account
         /\ s.entry.title # t.entry.title
         /\ s.entry.account # t.entry.account

\* The pull-request fetches awaiting an answer.
InFlightFetches == { req \in inflight : req.path.endpoint = "/repos/pulls" }

AwaitingWorkers == { w \in DOMAIN workers : workers[w].status = "awaiting" }

\* C5: at every instant of mapWithConcurrency(items, limit, mapper), the
\* mapper calls started and not yet settled number at most
\* min(limit, items.length).
C5_ConcurrencyBound ==
    /\ Cardinality(InFlightFetches) <= Min(limit, Len(items))
    /\ Cardinality(AwaitingWorkers) <= Min(limit, Len(items))

\* More items than the limit: every index has been claimed, some by a worker
\* on its second item, and `limit` fetches are in flight.
C5_Witness ==
    /\ limit >= 2
    /\ limit < Len(items)
    /\ nextIndex = Len(items)
    /\ Cardinality(InFlightFetches) = limit

\* C6: when mapWithConcurrency resolves (limit >= 1), results is as long as
\* items and results[i] is the mapper's value for items[i]: the listing
\* fetched for the call that claimed index i, mapped with items[i].
C6_IndexAlignment ==
    (mapState = "fulfilled" /\ limit >= 1) =>
      /\ Len(results) = Len(items)
      /\ \A i \in DOMAIN items :
           \E l \in listings :
             /\ l.call = <<acct, i - 1>>
             /\ l.repo = items[i]
             /\ results[i] = <<MapperValue(items[i], accounts[acct],
                                           l.pullRequests)>>

\* The call has resolved although a fetch for a later index was answered
\* before the fetch for an earlier index, both with pull requests.
C6_Witness ==
    /\ mapState = "fulfilled"
    /\ limit >= 1
    /\ Len(items) >= 3
    /\ \E a, b \in DOMAIN log :
         /\ a < b
         /\ log[a].kind = "response" /\ log[b].kind = "response"
         /\ log[a].size > 0 /\ log[b].size > 0
         /\ log[a].request.call[2] > log[b].request.call[2]
         /\ log[b].request.call[2] >= 0

\* The requests for a page of pull requests issued so far.
PullsRequests ==
    { log[i].request : i \in { j \in DOMAIN log :
                                 /\ log[j].kind = "request"
                                 /\ log[j].request.path.endpoint = "/repos/pulls" } }

Targets(req, repo) ==
    req.path.owner = repo.owner.login /\ req.path.repo = repo.name

\* C7: a page of a repository's pull requests is requested with an account's
\* token only if that account's own discovery reported the repository as not
\* archived, with issues enabled and with open_issues_count > 0; a repository
\* an account saw only as archived, without issues or with no open issue is
\* never fetched for that account.
C7_CandidateFiltering ==
    /\ \A req \in PullsRequests :
         /\ req.call[1] \in DOMAIN discovered
         /\ req.token = accounts[req.call[1]].token
         /\ \E repo \in Range(discovered[req.call[1]].repositories) :
              /\ Targets(req, repo)
              /\ ~repo.archived
              /\ repo.has_issues
              /\ repo.open_issues_count > 0
    /\ \A k \in DOMAIN discovered :
         \A repo \in Range(discovered[k].repositories) :
           (\A other \in Range(discovered[k].repositories) :
              other.full_name = repo.full_name =>
                other.archived \/ ~other.has_issues \/ other.open_issues_count = 0)
           => ~\E req \in PullsRequests : req.call[1] = k /\ Targets(req, repo)

\* The first account saw Acme/widgets as a candidate and fetched it; the
\* second saw it archived and fetched only its other repository.
C7_Witness ==
    /\ pc = "returned"
    /\ Len(discovered) = 2
    /\ RepoWidgetsOld \in Range(discovered[2].repositories)
    /\ \E req \in PullsRequests : req.call[1] = 1 /\ Targets(req, RepoWidgets)
    /\ ~\E req \in PullsRequests : req.call[1] = 2 /\ Targets(req, RepoWidgets)
    /\ \E req \in PullsRequests : req.call[1] = 2

\* The requests and answers of one listing, in order.
CallEvents(call) == SelectSeq(log, LAMBDA event : event.request.call = call)

\* Pages go out one at a time, numbered 1, 2, 3, ..., each after the answer
\* to the one before, and only after a full page.
OneAfterAnother(events) ==
    \A j \in DOMAIN events :
      /\ events[j].kind = IF j % 2 = 1 THEN "request" ELSE "response"
      /\ events[j].request.path.page = (j + 1) \div 2
      /\ events[j].request.path.per_page = PAGE_SIZE
      /\ j % 2 = 0 => events[j].request = events[j - 1].request
      /\ (j % 2 = 1 /\ j > 1) => events[j - 1].size >= PAGE_SIZE

RECURSIVE Concatenation(_)
Concatenation(pages) ==
    IF pages = <<>> THEN <<>>
    ELSE Concatenation(SubSeq(pages, 1, Len(pages) - 1)) \o pages[Len(pages)]

\* A listing that has returned `value` after receiving `pages`.
Exhausted(call, pages, value) ==
    LET events == CallEvents(call) IN
    /\ Len(events) = 2 * Len(pages)
    /\ \A p \in DOMAIN pages :
         /\ events[2 * p].size = Len(pages[p])
         /\ p < Len(pages) => Len(pages[p]) >= PAGE_SIZE
    /\ Len(pages[Len(pages)]) < PAGE_SIZE
    /\ value = Concatenation(pages)
    /\ [p \in DOMAIN pages |-> Len(pages[p])] = <<100, 100, 40>>
         => Len(value) = 240 /\ Len(events) = 6

\* C8: a listing requests pages 1, 2, 3, ... one after another, stops after
\* the first page of fewer than 100 items and returns the pages concatenated
\* in page order; pages of 100, 100 and 40 items give 240 items in 3 requests.
C8_PaginationExhaustion ==
    /\ \A i \in DOMAIN log : OneAfterAnother(CallEvents(log[i].request.call))
    /\ \A k \in DOMAIN discovered :
         Exhausted(<<k, -1>>, discovered[k].pages, discovered[k].listed)
    /\ \A l \in listings : Exhausted(l.call, l.pages, l.pullRequests)

\* A discovery of 100, 100 and 40 repositories, and a pull-request listing
\* of two pages.
C8_Witness ==
    /\ \E k \in DOMAIN discovered :
         /\ [p \in DOMAIN discovered[k].pages |-> Len(discovered[k].pages[p])]
              = <<100, 100, 40>>
         /\ Len(discovered[k].listed) = 240
    /\ pc \in {"fanout", "returned"}

\* C9: at every instant all requests in flight carry the token of the
\* account being processed; the requests and answers of the run follow the
\* order of the accounts; and when an account is begun, every listing of the
\* accounts before it has been fetched and merged.
C9_AccountsSequential ==
    /\ \A req \in inflight :
         req.call[1] = acct /\ req.token = accounts[acct].token
    /\ \A a, b \in DOMAIN log :
         a < b => log[a].request.call[1] <= log[b].request.call[1]
    /\ \A l \in listings :
         l.call[1] < acct =>
           \A j \in DOMAIN l.pullRequests :
             MapHas(pullRequestById, PullRequestId(l.repo, l.pullRequests[j]))

\* The second account has two fetches in flight; the first account's pull
\* requests are merged.
C9_Witness ==
    /\ acct = 2
    /\ pc = "fanout"
    /\ Cardinality(inflight) = 2
    /\ pullRequestById # <<>>
    /\ \E l \in listings : l.call[1] = 1 /\ l.pullRequests # <<>>

\* The first sighting of a repository: the first entry with its full name in
\* the discovery of the first account that discovered it.
FirstSighting(fullName) ==
    LET k == CHOOSE a \in Discoverers(fullName) :
               \A b \in Discoverers(fullName) : a <= b
        repos == discovered[k].repositories
        j == CHOOSE a \in DOMAIN repos :
               /\ repos[a].full_name = fullName
               /\ \A b \in 1..(a - 1) : repos[b].full_name # fullName
    IN  repos[j]

SeededFrom(entry, repo) ==
    /\ entry.id = repo.full_name
    /\ entry.organization = repo.owner.login
    /\ entry.name = repo.name
    /\ entry.fullName = repo.full_name
    /\ entry.url = repo.html_url
    /\ entry.private = repo.private
    /\ entry.visibility = repo.visibility
    /\ entry.archived = repo.archived
    /\ entry.openIssuesCount = repo.open_issues_count
    /\ entry.updatedAt = repo.updated_at
    /\ entry.defaultBranch = repo.default_branch

FirstSightingKept ==
    /\ \A entry \in Range(repositoryById) :
         SeededFrom(entry, FirstSighting(entry.id))
    /\ pc = "returned" =>
         \A entry \in Range(returned[1].repositories) :
           SeededFrom(entry, FirstSighting(entry.id))

\* What a step may do to the repository map: an entry already there keeps
\* every field but accounts, which at most gains the current account, and
\* openPullRequestCount; a new entry has count 0 and the current account.
MergeFrame ==
    \A i \in DOMAIN repositoryById' :
      IF i \in DOMAIN repositoryById
      THEN /\ [repositoryById'[i] EXCEPT !.accounts = <<>>,
                                         !.openPullRequestCount = 0]
                = [repositoryById[i] EXCEPT !.accounts = <<>>,
                                            !.openPullRequestCount = 0]
           /\ repositoryById'[i].accounts \in
                { repositoryById[i].accounts,
                  Append(repositoryById[i].accounts, accounts[acct].name) }
      ELSE /\ repositoryById'[i].openPullRequestCount = 0
           /\ repositoryById'[i].accounts = <<accounts[acct].name>>

\* C10: merging a repository whose full name is already in the map only adds
\* the account; every other field keeps the value of the first sighting, up
\* to the result, and a new entry starts with openPullRequestCount 0 and the
\* discovering account alone.
C10_RepositoryFirstSightingWins ==
    []FirstSightingKept /\ [][MergeFrame]_vars

\* The second account reports Acme/widgets archived; the result still shows
\* the first account's values.
C10_Witness ==
    /\ pc = "returned"
    /\ Len(discovered) = 2
    /\ RepoWidgets \in Range(discovered[1].repositories)
    /\ RepoWidgetsOld \in Range(discovered[2].repositories)
    /\ \E entry \in Range(returned[1].repositories) :
         /\ entry.id = RepoWidgets.full_name
         /\ entry.archived = FALSE
         /\ entry.accounts = <<"alice", "Bob">>

\* The lengths of the pull-request listings completed so far for a
\* repository, by any account.
ListingLengths(fullName) ==
    { Len(l.pullRequests) : l \in { x \in listings : x.repo.full_name = fullName } }

Largest(numbers) ==
    IF numbers = {} THEN 0
    ELSE CHOOSE n \in numbers : \A m \in numbers : m <= n

CountIsLargestListing ==
    /\ \A entry \in Range(repositoryById) :
         entry.openPullRequestCount = Largest(ListingLengths(entry.id))
    /\ pc = "returned" =>
         \A entry \in Range(returned[1].repositories) :
           entry.openPullRequestCount = Largest(ListingLengths(entry.id))

CountNeverDecreases ==
    \A i \in DOMAIN repositoryById :
      /\ i \in DOMAIN repositoryById'
      /\ repositoryById'[i].id = repositoryById[i].id
      /\ repositoryById'[i].openPullRequestCount
           >= repositoryById[i].openPullRequestCount

\* C11: openPullRequestCount is a running maximum: it is at every moment the
\* largest length among the listings completed for the repository (0 when
\* none), it never decreases from one step to the next, and the result
\* carries the largest length over all accounts that fetched the repository.
C11_CountRunningMaximum ==
    []CountIsLargestListing /\ [][CountNeverDecreases]_vars

\* The first account listed two pull requests for a repository, a later
\* account fewer; the result holds the larger number.
C11_Witness ==
    /\ pc = "returned"
    /\ \E entry \in Range(returned[1].repositories) :
         /\ entry.openPullRequestCount = 2
         /\ \E a, b \in listings :
              /\ a.repo.full_name = entry.id /\ b.repo.full_name = entry.id
              /\ a.call[1] < b.call[1]
              /\ Len(a.pullRequests) = 2
              /\ Len(b.pullRequests) < 2

\* mapWithConcurrency's promise is no longer pending.
Settled == mapState \in {"fulfilled", "rejected"}

\* Every worker has left its loop and no fetch of the call awaits an answer.
CursorExhausted ==
    /\ nextIndex = Len(items)
    /\ AwaitingWorkers = {}
    /\ InFlightFetches = {}

\* C12 as stated: in the step in which mapWithConcurrency's promise settles,
\* fulfilled or rejected, the cursor has reached items.length and no worker
\* has a fetch in flight.
C12_SettlesOnlyWhenExhausted ==
    [][(~Settled /\ Settled') => CursorExhausted']_vars

\* C12, amended: in the step in which mapWithConcurrency's promise fulfils,
\* for a limit of at least 1, the cursor has reached items.length and no
\* worker has a fetch in flight.  (A rejection comes with the first failed
\* fetch, whatever the other workers are doing.)
C12_FulfilsOnlyWhenExhausted ==
    [][(mapState # "fulfilled" /\ mapState' = "fulfilled" /\ limit' >= 1)
         => CursorExhausted']_vars

\* The call has fulfilled after its workers went on to claim the items
\* beyond the first `limit`.
C12_Witness ==
    /\ mapState = "fulfilled"
    /\ limit >= 2
    /\ Len(items) > limit
    /\ CursorExhausted
    /\ \A i \in DOMAIN results : results[i] # <<>>

\* From one step to the next every recorded pull request stays where it is
\* and as it is.
PullRequestsKept ==
    \A i \in DOMAIN pullRequestById :
      /\ i \in DOMAIN pullRequestById'
      /\ pullRequestById'[i] = pullRequestById[i]

\* The result is made of the entries as recorded.
PullRequestsReturnedAsRecorded ==
    pc = "returned" => returned[1].pullRequests = pullRequestById

\* C13: once a pull request id has been inserted into the global
\* pull-request map, the entry under that id keeps the field values it had at
\* insertion in every later state and in the result, even when a later
\* sighting of the id carries other values.
C13_PullRequestsImmutable ==
    [][PullRequestsKept]_vars /\ []PullRequestsReturnedAsRecorded

\* The second account listed pull request 5 of a repository with another
\* title, author and draft flag than the first account had; the result shows
\* the first account's values.
C13_Witness ==
    /\ pc = "returned"
    /\ \E a, b \in listings :
         /\ a.call[1] = 1 /\ b.call[1] = 2
         /\ a.repo.full_name = b.repo.full_name
         /\ PullFive \in Range(a.pullRequests)
         /\ PullFiveEdited \in Range(b.pullRequests)
         /\ MapperValue(a.repo, accounts[1], <<PullFive>>)[1]
              \in Range(returned[1].pullRequests)
         /\ MapperValue(b.repo, accounts[2], <<PullFiveEdited>>)[1]
              \notin Range(returned[1].pullRequests)

AccountsNonEmpty ==
    \A entry \in Range(repositoryById) : entry.accounts # <<>>

AccountsOnlyGrow ==
    \A i \in DOMAIN repositoryById :
      /\ i \in DOMAIN repositoryById'
      /\ repositoryById'[i].id = repositoryById[i].id
      /\ Range(repositoryById[i].accounts) \subseteq Range(repositoryById'[i].accounts)

\* C14: in every reachable state every entry of the global repository map
\* has a non-empty accounts set, and from one step to the next no entry
\* loses an account name.
C14_AccountsGrowMonotonically ==
    []AccountsNonEmpty /\ [][AccountsOnlyGrow]_vars

\* The second account is fetching, and a repository the first account had
\* discovered now carries both names.
C14_Witness ==
    /\ acct = 2
    /\ pc = "fanout"
    /\ \E entry \in Range(repositoryById) :
         /\ Range(entry.accounts) = {accounts[1].name, accounts[2].name}
         /\ accounts[1].name # accounts[2].name
         /\ 1 \in Discoverers(entry.id) /\ 2 \in Discoverers(entry.id)

\* fetchDashboardPullRequests has rejected with an error of
\* loadDashboardConfig.
ConfigFailed ==
    /\ pc = "thrown"
    /\ \E message \in ConfigErrors : thrown = <<[message |-> message]>>

\* C15: a configuration error aborts fetchDashboardPullRequests before any
\* network request: when the run has failed with a configuration error no
\* request has been issued or is in flight and nothing is returned, and no
\* request is ever issued before the configuration has been loaded.
C15_ConfigErrorBeforeNetwork ==
    /\ ConfigFailed => log = <<>> /\ inflight = {} /\ returned = <<>>
    /\ pc = "config" => log = <<>> /\ inflight = {}
    /\ (log # <<>> \/ inflight # {}) => accounts # <<>>

\* The run has failed because the configuration has no valid account.
C15_Witness ==
    /\ ConfigFailed
    /\ thrown[1].message = "No valid accounts found in github-dashboard.yml. Check token env vars and organizations."
    /\ log = <<>>

\* C16: once Home has resumed from its await, exactly one of dashboardData
\* and loadError is defined: dashboardData is the value returned, or
\* loadError is the message of the error thrown, unchanged; DashboardClient
\* then shows the data or the error, never its "no data" panel.
C16_DataOrError ==
    home = "render" =>
      /\ (dashboardData = <<>>) # (loadError = <<>>)
      /\ returned # <<>> => dashboardData = returned /\ loadError = <<>>
      /\ thrown # <<>> =>
           /\ dashboardData = <<>>
           /\ loadError = <<ErrorMessage(thrown[1])>>
           /\ \/ loadError[1] \in ConfigErrors
              \/ \E i \in DOMAIN log, response \in ErrorResponses :
                   /\ IsFailure(log[i])
                   /\ loadError[1] =
                        ErrorMessage(GitHubError(response, log[i].request.path))
      /\ DashboardClient(dashboardData, loadError)
           = IF thrown # <<>> THEN "Failed to load dashboard" ELSE "dashboard"

\* Home shows the error of a pull-request listing that answered 404 after
\* the first account had been merged.
C16_Witness ==
    /\ home = "render"
    /\ acct = 2
    /\ pullRequestById # <<>>
    /\ dashboardData = <<>>
    /\ loadError = <<"GitHub API 404 for \"/repos/Acme/widgets/pulls?state=open&sort=created&direction=desc&per_page=100&page=1\": Not Found">>

RequestEvents == { i \in DOMAIN log : log[i].kind = "request" }

\* The account's discovery, as filtered, names no repository twice.
NoDuplicateFullNames(k) ==
    Cardinality(FullNames(discovered[k].repositories))
      = Len(discovered[k].repositories)

\* C17: no retries: after a request has failed, the listing it belongs to
\* issues no further request, neither that page again nor another; and
\* unless an account's discovery names a repository twice, each request of
\* an account for a path (endpoint and page) is issued at most once in a run.
C17_NoRetries ==
    /\ \A i \in DOMAIN log :
         IsFailure(log[i]) =>
           \A j \in RequestEvents :
             j > i => log[j].request.call # log[i].request.call
    /\ \A i, j \in RequestEvents :
         (/\ i < j
          /\ log[i].request.call[1] = log[j].request.call[1]
          /\ log[i].request.path = log[j].request.path)
         => /\ log[i].request.call[1] \in DOMAIN discovered
            /\ ~NoDuplicateFullNames(log[i].request.call[1])

\* Page 2 of the discovery failed after a full page 1; the run has thrown and
\* the history ends with that failure.
C17_Witness ==
    /\ pc = "thrown"
    /\ Len(log) = 4
    /\ IsFailure(log[4])
    /\ log[4].request.path.page = 2
    /\ log[2].size = PAGE_SIZE
    /\ inflight = {}

\* Where a repository was first sighted: <<account, position in that
\* account's discovery>>.
FirstSightingPlace(fullName) ==
    LET k == CHOOSE a \in Discoverers(fullName) :
               \A b \in Discoverers(fullName) : a <= b
        repos == discovered[k].repositories
        j == CHOOSE a \in DOMAIN repos :
               /\ repos[a].full_name = fullName
               /\ \A b \in 1..(a - 1) : repos[b].full_name # fullName
    IN  <<k, j>>

Earlier(p, q) == p[1] < q[1] \/ (p[1] = q[1] /\ p[2] < q[2])

\* The first sighting of a pull request id in processing order.
FirstPullSighting(id) ==
    CHOOSE s \in Sightings :
      /\ s.id = id
      /\ \A t \in Sightings : (t.id = id /\ t # s) => Precedes(s, t)

\* C18: the result is in insertion order: repositories in the order of their
\* first sighting (accounts in configuration order, then discovery order),
\* pull requests in the order of their first sighting by account, then index
\* of the repository among that account's candidates, then position in the
\* listing.
C18_InsertionOrder ==
    pc = "returned" =>
      LET repos == returned[1].repositories
          prs == returned[1].pullRequests
      IN
      /\ \A i, j \in DOMAIN repos :
           i < j => /\ Discoverers(repos[i].id) # {}
                    /\ Discoverers(repos[j].id) # {}
                    /\ Earlier(FirstSightingPlace(repos[i].id),
                               FirstSightingPlace(repos[j].id))
      /\ \A i, j \in DOMAIN prs :
           i < j => /\ \E s \in Sightings : s.id = prs[i].id
                    /\ \E s \in Sightings : s.id = prs[j].id
                    /\ Precedes(FirstPullSighting(prs[i].id),
                                FirstPullSighting(prs[j].id))

\* Two repositories and three pull requests are returned; the first
\* account's second candidate was answered before its first, and the second
\* account sighted again a pull request of the first.
C18_Witness ==
    /\ pc = "returned"
    /\ Len(returned[1].repositories) >= 2
    /\ Len(returned[1].pullRequests) >= 3
    /\ \E a, b \in DOMAIN log :
         /\ a < b
         /\ log[a].kind = "response" /\ log[b].kind = "response"
         /\ log[a].size > 0 /\ log[b].size > 0
         /\ log[a].request.call[1] = 1 /\ log[b].request.call[1] = 1
         /\ log[a].request.call[2] = 1 /\ log[b].request.call[2] = 0
    /\ \E s, t \in Sightings : s.id = t.id /\ s.account = 1 /\ t.account = 2

\* The listing an invocation received for candidate `index` of account k.
ListingOf(context, k, index) ==
    CHOOSE l \in context.listings : l.call = <<k, index>>

RECURSIVE CountListings(_, _, _, _)
CountListings(map, context, k, n) ==
    IF n = 0 THEN map
    ELSE RecordCount(CountListings(map, context, k, n - 1),
                     ListingOf(context, k, n - 1).repo,
                     ListingOf(context, k, n - 1).pullRequests)

\* The two maps fetchDashboardPullRequests builds, alone, from the answers an
\* invocation received for its first k accounts.
RECURSIVE AloneMaps(_, _)
AloneMaps(context, k) ==
    IF k = 0 THEN [repositories |-> <<>>, pullRequests |-> <<>>]
    ELSE LET before == AloneMaps(context, k - 1)
             account == context.accounts[k]
             repositories == context.discovered[k].repositories
             candidates == CandidateRepos(repositories)
             merged == MergeRepositories(before.repositories, repositories,
                                         account.name)
             batches == [i \in DOMAIN candidates |->
                           <<MapperValue(candidates[i], account,
                               ListingOf(context, k, i - 1).pullRequests)>>]
         IN  [repositories |-> CountListings(merged, context, k, Len(candidates)),
              pullRequests |-> MergeBatches(before.pullRequests, batches)]

AloneResult(context) ==
    LET maps == AloneMaps(context, Len(context.accounts)) IN
    [configPath |-> context.configPath,
     warnings |-> context.warnings,
     pullRequests |-> maps.pullRequests,
     repositories |-> AllRepositories(maps.repositories)]

\* An invocation's outcome is that of a run alone against the answers it
\* received, and its maps hold nothing but what it discovered and listed.
AsAlone(context) ==
    /\ context.pc = "returned" => context.returned = <<AloneResult(context)>>
    /\ context.pc = "thrown" =>
         \E i \in DOMAIN context.log, response \in ErrorResponses :
           /\ IsFailure(context.log[i])
           /\ context.thrown = <<GitHubError(response, context.log[i].request.path)>>
    /\ \A entry \in Range(context.repositoryById) :
         \E k \in DOMAIN context.discovered :
           entry.id \in FullNames(context.discovered[k].repositories)
    /\ \A entry \in Range(context.pullRequestById) :
         \E l \in context.listings :
           \E j \in DOMAIN l.pullRequests :
             entry.id = PullRequestId(l.repo, l.pullRequests[j])

\* A step is the running invocation's and leaves the locals of the waiting
\* one as they are, or passes control and leaves the locals of both as they
\* are.
OwnLocalsOnly ==
    \/ suspended' = suspended
    \/ suspended' = <<Context>> /\ <<Context'>> = suspended

\* C19: with two invocations of fetchDashboardPullRequests in flight at the
\* same time, their steps interleaved, no step of one reads or writes the
\* maps of the other, and each ends as it would alone against the answers it
\* received.
C19_RunIsolation ==
    /\ [](AsAlone(Context) /\ AsAlone(suspended[1]))
    /\ [][OwnLocalsOnly]_vars

\* One invocation has returned while the other, which discovered another
\* repository, has one listing done and one fetch still in flight.
C19_Witness ==
    /\ pc = "returned"
    /\ returned[1].repositories # <<>>
    /\ returned[1].pullRequests # <<>>
    /\ suspended[1].pc = "fanout"
    /\ suspended[1].inflight # {}
    /\ suspended[1].listings # {}
    /\ \E entry \in Range(suspended[1].repositoryById) :
         ~MapHas(repositoryById, entry.id)
    /\ \E entry \in Range(repositoryById) :
         ~MapHas(suspended[1].repositoryById, entry.id)

\* The spellings of a name that differ only in the case of their letters.
Spellings ==
    { {"acme", "Acme", "ACME"}, {"other", "Other", "OTHER"}, {"zzz", "Zzz", "ZZZ"} }

SameIgnoringCase(a, b) ==
    a = b \/ \E spelling \in Spellings : a \in spelling /\ b \in spelling

OwnedByConfigured(account, repo) ==
    \E org \in Range(account.organizations) :
      SameIgnoringCase(org, repo.owner.login)

\* C20: of the repositories an account's discovery returned, exactly those
\* whose owner login is, case aside, one of the account's configured
\* organizations are kept, in order; and when none is kept the run does not
\* fail: the account adds nothing to the repository map, fetches no pull
\* requests, and the run goes on with the next account or returns.
C20_OrganizationFilter ==
    \A k \in DOMAIN discovered :
      LET account == accounts[k]
          kept == discovered[k].repositories
      IN
      /\ kept = SelectSeq(discovered[k].listed,
                          LAMBDA repo : OwnedByConfigured(account, repo))
      /\ kept = <<>> =>
           /\ \A entry \in Range(repositoryById) :
                account.name \notin Range(entry.accounts)
           /\ ~\E req \in PullsRequests : req.call[1] = k
           /\ pc = "thrown" => \E i \in DOMAIN log : IsFailure(log[i])
           /\ IF k < Len(accounts)
              THEN /\ acct > k
                   /\ \E i \in RequestEvents : log[i].request.call = <<k + 1, -1>>
              ELSE pc = "returned"

\* The first account was shown repositories of an organization it is not
\* configured for and kept none; the second kept a repository whose owner is
\* spelled in another case than its configuration; the run has returned.
C20_Witness ==
    /\ pc = "returned"
    /\ Len(discovered) = 2
    /\ discovered[1].listed # <<>>
    /\ discovered[1].repositories = <<>>
    /\ \E repo \in Range(discovered[2].repositories) :
         repo.owner.login \notin Range(accounts[2].organizations)
    /\ returned[1].repositories # <<>>

(***************************************************************************)
(* C21..C30.                                                               *)
(***************************************************************************)
\* What keeps an entry from being an account: the first of the three checks
\* it does not pass, or "none".
Defect(raw) ==
    IF \/ raw.type # "object"
       \/ raw.tokenEnv.type # "string"
       \/ trim(raw.tokenEnv.text) = ""
    THEN "tokenEnv"
    ELSE IF \/ raw.organizations.type # "array"
            \/ \A i \in DOMAIN raw.organizations.items :
                 trim(raw.organizations.items[i]) = ""
    THEN "organizations"
    ELSE IF LET value == ProcessEnv(trim(raw.tokenEnv.text)) IN
            value.type # "string" \/ trim(value.text) = ""
    THEN "token"
    ELSE "none"

\* The positions of the entries with this defect, as a sequence in config
\* order.
RECURSIVE EntriesWith(_, _, _)
EntriesWith(raw, defects, index) ==
    IF index > Len(raw) THEN <<>>
    ELSE IF Defect(raw[index]) \in defects
         THEN <<index>> \o EntriesWith(raw, defects, index + 1)
         ELSE EntriesWith(raw, defects, index + 1)

\* The warning an entry with a defect is reported with.
WarningOf(raw, index) ==
    LET tokenEnv == trim(raw[index].tokenEnv.text) IN
    CASE Defect(raw[index]) = "tokenEnv" ->
           "Skipped account #" \o ToString(index)
           \o ": missing \"tokenEnv\" in config."
      [] Defect(raw[index]) = "organizations" ->
           "Skipped account \"" \o tokenEnv \o "\": no organizations configured."
      [] OTHER ->
           "Skipped account \"" \o tokenEnv \o "\": environment variable "
           \o tokenEnv \o " is empty or missing."

\* The loader has settled on a file whose accounts list is not empty.
LoadedEntries ==
    /\ pc # "config"
    /\ configFile.content = "yaml"
    /\ configFile.accounts # <<>>

\* C21: for a config with a non-empty accounts list, every entry gives one
\* account, in config order, or one warning, that of the first check it
\* fails among tokenEnv, organizations, token; accounts plus warnings
\* number the entries; the load fails if and only if no entry is valid, and
\* an invalid entry does not keep a later valid one from being accepted.
C21_ConfigValidation ==
    LoadedEntries =>
      LET raw == configFile.accounts
          valid == EntriesWith(raw, {"none"}, 1)
          invalid == EntriesWith(raw, {"tokenEnv", "organizations", "token"}, 1)
      IN  /\ (pc = "thrown") <=> (valid = <<>>)
          /\ pc # "thrown" =>
               /\ Len(accounts) + Len(warnings) = Len(raw)
               /\ [i \in DOMAIN accounts |-> accounts[i].tokenEnv]
                    = [i \in DOMAIN valid |-> trim(raw[valid[i]].tokenEnv.text)]
               /\ warnings = [i \in DOMAIN invalid |-> WarningOf(raw, invalid[i])]

\* C22: a successful result carries the warnings and the configPath the
\* loader returned, unchanged since the load whatever was discovered, and a
\* run whose load gave warnings fails only if a request failed.
C22_ConfigOutcomeCarried ==
    /\ [](pc = "returned" =>
            /\ returned[1].warnings = warnings
            /\ returned[1].configPath = configPath)
    /\ [](pc # "config" /\ ~ConfigFailed =>
            \E cfg \in ConfigResults :
              /\ cfg.accounts = accounts
              /\ cfg.warnings = warnings
              /\ cfg.configPath = configPath)
    /\ [](pc = "thrown" /\ warnings # <<>> => SomeRequestFailed)
    /\ [][pc # "config" =>
            warnings' = warnings /\ configPath' = configPath]_vars

C22_Witness ==
    /\ pc = "returned"
    /\ returned[1].warnings # <<>>
    /\ returned[1].configPath = "github-dashboard.yml"
    /\ Len(returned[1].repositories) >= 2
    /\ returned[1].pullRequests # <<>>

\* The last entry of the log is the answer to a request.
LastAnswer(history) ==
    IF history # <<>> /\ history[Len(history)].kind = "response"
    THEN <<history[Len(history)]>>
    ELSE <<>>

\* The error a non-success answer is reported with.
Reported(response, path) ==
    [status |-> response.status,
     path |-> path,
     message |-> IF response.json /\ response.message # NoMessage
                 THEN response.message
                 ELSE "Unknown GitHub API error"]

\* C23: the step at which a request is answered with a non-success status
\* and the run fails throws an error with that status, the path of that
\* request, and the message of the body, or "Unknown GitHub API error" when
\* the body is not JSON or has no message; a step that throws such an error
\* is the answer of a non-success status, never of a success status.
C23_GitHubErrorContent ==
    [][thrown' # thrown /\ ~ConfigFailed' =>
         /\ LastAnswer(log') # <<>>
         /\ Len(log') = Len(log) + 1
         /\ IsFailure(LastAnswer(log')[1])
         /\ \E response \in ErrorResponses :
              thrown' = <<Reported(response, LastAnswer(log')[1].request.path)>>
         /\ ErrorMessage(thrown'[1]) \in
              { "GitHub API " \o ToString(response.status) \o " for \""
                  \o PathText(LastAnswer(log')[1].request.path) \o "\": " \o text :
                    response \in ErrorResponses,
                    text \in {"Not Found", "Unknown GitHub API error"} }]_vars

\* A pull-request page was answered 502 with a body that is not JSON, after
\* pages answered with success.
C23_Witness ==
    /\ pc = "thrown"
    /\ thrown # <<>>
    /\ "status" \in DOMAIN thrown[1]
    /\ thrown[1].status = 502
    /\ thrown[1].message = "Unknown GitHub API error"
    /\ thrown[1].path.endpoint # "/user/repos"
    /\ \E i \in DOMAIN log : log[i].kind = "response" /\ log[i].size >= 0

\* C24: there is no timeout and no cancellation: while a request of the run
\* awaits its answer and no request has failed, the run has neither returned
\* nor thrown, so a request that is never answered keeps a run without
\* failures from ever completing.
C24_NoTimeout ==
    inflight # {} /\ ~SomeRequestFailed => pc \notin {"returned", "thrown"}

\* The last account's fan-out waits for one answer only: every other fetch
\* has been stored and no index is left to claim.
C24_Witness ==
    /\ pc = "fanout"
    /\ acct = Len(accounts)
    /\ Len(items) >= 2
    /\ nextIndex >= Len(items)
    /\ Cardinality(inflight) = 1
    /\ ~SomeRequestFailed

\* The least number of pages of `size` items that hold n items.
PagesFor(n, size) ==
    CHOOSE k \in 0..n : k * size >= n /\ \A j \in 0..(k - 1) : j * size < n

\* The pages 1..last of a list, one after the other.
RECURSIVE PagesThrough(_, _)
PagesThrough(array, last) ==
    IF last = 0 THEN <<>>
    ELSE PagesThrough(array, last - 1)
           \o paginate(array, last, ITEMS_PER_PAGE).items

\* C25: display pagination is 10 items per page: whatever the list and the
\* requested page (0, negative and beyond the last page included), paginate
\* returns totalPages = max(1, ceil(n/10)), currentPage brought into
\* 1..totalPages, at most 10 items, startItem and endItem that delimit
\* exactly the items returned (0 and 0 for an empty list), and the pages
\* 1..totalPages in order make up the list without loss or repetition.
C25_Paginate ==
    pagination # <<>> =>
      LET result == pagination[1]
          array == paginateCall.items
          requestedPage == paginateCall.requestedPage
          n == Len(array)
      IN  /\ paginateCall.pageSize = 10
          /\ result.totalItems = n
          /\ result.totalPages = IF n = 0 THEN 1 ELSE PagesFor(n, 10)
          /\ result.currentPage =
               IF requestedPage < 1 THEN 1
               ELSE IF requestedPage > result.totalPages THEN result.totalPages
               ELSE requestedPage
          /\ Len(result.items) <= 10
          /\ IF n = 0
             THEN result.items = <<>> /\ result.startItem = 0 /\ result.endItem = 0
             ELSE /\ 1 <= result.startItem
                  /\ result.startItem <= result.endItem
                  /\ result.endItem <= n
                  /\ result.startItem = (result.currentPage - 1) * 10 + 1
                  /\ result.items = [i \in 1..(result.endItem - result.startItem + 1)
                                       |-> array[result.startItem + i - 1]]
          /\ PagesThrough(array, result.totalPages) = array

\* A page beyond the last was asked of a list whose last page is partial,
\* and the last page was returned.
C25_Witness ==
    /\ pagination # <<>>
    /\ Len(paginateCall.items) > 20
    /\ paginateCall.requestedPage > pagination[1].totalPages
    /\ pagination[1].currentPage = 3
    /\ Len(pagination[1].items) = Len(paginateCall.items) - 20

\* The organizations whose page differs between two page records.
PagesChanged(before, after) ==
    { organization \in DOMAIN before \cup DOMAIN after :
        PageOf(before, organization) # PageOf(after, organization) }

\* The other selections of DashboardClient and its data stay as they are.
PageChangeFrame(otherPages) ==
    /\ otherPages' = otherPages
    /\ allPullPage' = allPullPage
    /\ tabMode' = tabMode
    /\ viewMode' = viewMode
    /\ sortMode' = sortMode
    /\ dashboardData' = dashboardData

\* C26: a change of page in one organization's group, of the grouped
\* pull-request view or of the repositories tab, changes the page of that
\* organization in that view and nothing else: every other organization
\* keeps its page, and the pages of the other view, the all-PRs page, the
\* tab, the view, the sort and the data are unchanged.
C26_PerOrganizationPages ==
    [][/\ (pullOrgPages' # pullOrgPages /\ DOMAIN pullOrgPages' # {}) =>
            /\ tabMode = "pulls" /\ viewMode = "org"
            /\ Cardinality(PagesChanged(pullOrgPages, pullOrgPages')) = 1
            /\ DOMAIN pullOrgPages \subseteq DOMAIN pullOrgPages'
            /\ PageChangeFrame(repoOrgPages)
       /\ repoOrgPages' # repoOrgPages =>
            /\ tabMode = "repos"
            /\ Cardinality(PagesChanged(repoOrgPages, repoOrgPages')) = 1
            /\ DOMAIN repoOrgPages \subseteq DOMAIN repoOrgPages'
            /\ PageChangeFrame(pullOrgPages)]_vars

\* Both views hold a page other than 1 for two organizations each, and the
\* all-PRs page has been moved too.
C26_Witness ==
    /\ Rendered
    /\ \E one, two \in DOMAIN pullOrgPages :
         one # two /\ pullOrgPages[one] > 1 /\ pullOrgPages[two] > pullOrgPages[one]
    /\ \E one, two \in DOMAIN repoOrgPages :
         one # two /\ repoOrgPages[one] > 1 /\ repoOrgPages[two] > 1
    /\ allPullPage > 1

\* The mapper invocations so far: each begins with the request of page 1 of
\* its repository's pull requests, made in the step that claims the index.
Claims ==
    SelectSeq(log, LAMBDA event :
                     /\ event.kind = "request"
                     /\ event.request.path.endpoint # "/user/repos"
                     /\ event.request.path.page = 1)

ClaimedIndex(event) == event.request.call[2]

SameAnswers(a, b) ==
    /\ a.accounts = b.accounts
    /\ a.warnings = b.warnings
    /\ a.configPath = b.configPath
    /\ a.discovered = b.discovered
    /\ a.listings = b.listings

\* C28: the successful result does not depend on scheduling: two runs with
\* the same configuration and the same answers, whatever the order in which
\* their concurrent fetches were answered, return the same repositories and
\* pullRequests arrays, in the same order, with the same counts and the same
\* accounts.
C28_ScheduleIndependence ==
    LET a == Context
        b == suspended[1]
    IN  (a.pc = "returned" /\ b.pc = "returned" /\ SameAnswers(a, b)) =>
          /\ a.returned = b.returned
          /\ a.returned[1].repositories = b.returned[1].repositories
          /\ a.returned[1].pullRequests = b.returned[1].pullRequests

\* Both runs have returned on the same answers, two listings with pull
\* requests among them, and their fetches were answered in different orders.
C28_Witness ==
    LET a == Context
        b == suspended[1]
    IN  /\ a.pc = "returned" /\ b.pc = "returned"
        /\ SameAnswers(a, b)
        /\ Cardinality({ l \in a.listings : l.pullRequests # <<>> }) >= 2
        /\ a.log # b.log
        /\ Len(a.returned[1].pullRequests) >= 2

\* The requests a paginated call has issued.
RequestsOf(call) ==
    Len(SelectSeq(CallEvents(call), LAMBDA event : event.kind = "request"))

\* A completed listing of `value`, read in `pages`, took floor(N/100) + 1
\* requests, the last one answered by an empty page when N is a positive
\* multiple of 100.
RequestCount(call, pages, value) ==
    LET N == Len(value) IN
    /\ RequestsOf(call) = (N \div 100) + 1
    /\ Len(pages) = RequestsOf(call)
    /\ N = 0 => RequestsOf(call) = 1
    /\ (N > 0 /\ N % 100 = 0) =>
         /\ pages[Len(pages)] = <<>>
         /\ RequestsOf(call) = Len(SelectSeq(pages, LAMBDA b : b # <<>>)) + 1

\* C29: a paginated call over a listing of N items issues exactly
\* floor(N/100) + 1 requests: one more, answered by an empty page, when N is
\* a positive multiple of 100, and exactly one when N = 0.
C29_RequestCount ==
    /\ \A k \in DOMAIN discovered :
         RequestCount(<<k, -1>>, discovered[k].pages, discovered[k].listed)
    /\ \A l \in listings : RequestCount(l.call, l.pages, l.pullRequests)

\* A discovery of 200 repositories took three requests, the third answered
\* by an empty page.
C29_Witness ==
    \E k \in DOMAIN discovered :
      /\ Len(discovered[k].listed) = 200
      /\ RequestsOf(<<k, -1>>) = 3
      /\ discovered[k].pages[3] = <<>>

Completed == pc \in {"returned", "thrown"}

\* A listing that has returned nothing but full pages so far and whose next
\* page is awaited: the discovery, or the listing of a worker.
FullPagesOnly ==
    \/ /\ \E req \in inflight : req.worker = 0
       /\ received # <<>>
       /\ \A p \in DOMAIN received : Len(received[p]) >= PAGE_SIZE
    \/ \E w \in AwaitingWorkers :
         /\ workers[w].received # <<>>
         /\ \A p \in DOMAIN workers[w].received :
              Len(workers[w].received[p]) >= PAGE_SIZE

\* C30 as stated: when every request is answered and every listing comes to
\* a page of fewer than 100 items the run eventually completes, with a
\* result or with an error; and a run is not completed while one of its
\* listings has returned only full pages and goes on.
C30_TerminationAsStated ==
    /\ <>Completed
    /\ [](FullPagesOnly => ~Completed)

\* C30, amended: when every request is answered and every listing comes to
\* a page of fewer than 100 items the run eventually completes, with a
\* result or with an error; while one of its listings has returned only
\* full pages and goes on, the run has not returned a result, and it has
\* thrown only if a request failed.
C30_Termination ==
    /\ <>Completed
    /\ [](FullPagesOnly => pc # "returned" /\ (pc = "thrown" => SomeRequestFailed))

\* The run has returned after a discovery of several pages and a listing of
\* pull requests of several pages.
C30_Witness ==
    /\ pc = "returned"
    /\ \E k \in DOMAIN discovered : Len(discovered[k].pages) >= 2
    /\ \E l \in listings : Len(l.pages) >= 2

(***************************************************************************)
(* C31..C39.                                                               *)
(***************************************************************************)
\* The positions of the failed answers in the log.
Failures == { i \in DOMAIN log : IsFailure(log[i]) }

\* The answer that failed first in time.
FirstFailure == log[CHOOSE i \in Failures : \A j \in Failures : i <= j]

\* C31: when several fetches of one fan-out fail, mapWithConcurrency and
\* the run fail with the error of the fetch that failed first in time,
\* whatever its index, and no later failure replaces that error.
C31_FirstFailureSurfaces ==
    /\ [](Failures # {} =>
            /\ mapState = "rejected"
            /\ pc = "thrown"
            /\ \E response \in ErrorResponses :
                 thrown = <<GitHubError(response, FirstFailure.request.path)>>)
    /\ [][thrown # <<>> => thrown' = thrown]_vars

\* Two fetches have failed, the one of the higher index first, and the
\* error is that of the higher index.
C31_Witness ==
    /\ mapState = "rejected"
    /\ \E i, j \in Failures :
         /\ i < j
         /\ log[i].request.call[2] > log[j].request.call[2]
         /\ thrown[1].path = log[i].request.path
         /\ thrown[1].path # log[j].request.path

\* The log entries a step appends.
Appended == { i \in DOMAIN log' : i > Len(log) }

\* C32 as stated: once mapWithConcurrency has rejected, no index is claimed
\* any more, and every request issued from then on belongs to a fetch whose
\* index had been claimed before.
C32_NoClaimAfterRejection ==
    [][mapState = "rejected" =>
         /\ nextIndex' = nextIndex
         /\ \A i \in Appended :
              log'[i].kind = "request" => log'[i].request.call[2] < nextIndex]_vars

\* C32, amended: once mapWithConcurrency has rejected, a worker whose fetch
\* has failed issues no further request; the requests issued from then on
\* come from the workers that have not failed, for the fetch they had in
\* flight or for an index they go on to claim, each index still once.
C32_FailedWorkerStops ==
    /\ [](\A i \in Failures : \A j \in DOMAIN log :
            (j > i /\ log[j].kind = "request") =>
              log[j].request.worker # log[i].request.worker)
    /\ [][mapState = "rejected" =>
            \A i \in Appended :
              log'[i].kind = "request" =>
                /\ log'[i].request.worker \in AwaitingWorkers
                /\ log'[i].request.call[2] = nextIndex
                /\ nextIndex' = nextIndex + 1]_vars

\* After the call has rejected, a surviving worker has claimed an index that
\* was unclaimed at the failure and has requested its pull requests.
C32_Witness ==
    /\ mapState = "rejected"
    /\ \E i \in Failures : \E j \in DOMAIN log :
         /\ j > i
         /\ log[j].kind = "request"
         /\ \A k \in 1..i : log[k].request.call[2] < log[j].request.call[2]

\* The most requests a phase of the run can have in flight: one page of the
\* discovery, or one page per worker of the fan-out; after a failure of the
\* fan-out, one page per worker that has not failed.
PhaseBound ==
    CASE pc = "config" -> 0
      [] pc = "discover" -> 1
      [] pc = "fanout" -> Min(REPO_FETCH_CONCURRENCY, Len(items))
      [] pc = "thrown" -> Max(0, Min(REPO_FETCH_CONCURRENCY, Len(items)) - 1)
      [] OTHER -> 0

ReferredBy(pullRequest) ==
    { i \in DOMAIN returned[1].repositories :
        returned[1].repositories[i].id = pullRequest.repositoryFullName }

\* C34: every pull request of a successful result names, by its
\* repositoryFullName, the id of a repository of the same result (exactly
\* one entry), and its account is one of that repository's accounts.
C34_ReferentialIntegrity ==
    pc = "returned" =>
      \A pullRequest \in Range(returned[1].pullRequests) :
        /\ Cardinality(ReferredBy(pullRequest)) = 1
        /\ \A i \in ReferredBy(pullRequest) :
             pullRequest.account \in Range(returned[1].repositories[i].accounts)

\* A result with a pull request of a repository two accounts have seen,
\* kept from the listing of the account that comes second in the sorted
\* accounts.
C34_Witness ==
    /\ pc = "returned"
    /\ \E pullRequest \in Range(returned[1].pullRequests) :
         \E i \in ReferredBy(pullRequest) :
           LET names == returned[1].repositories[i].accounts IN
           /\ Len(names) = 2
           /\ pullRequest.account = names[2]
           /\ pullRequest.account = accounts[1].name

\* The pull requests of the result that name a repository.
PullsOf(fullName) ==
    { i \in DOMAIN returned[1].pullRequests :
        returned[1].pullRequests[i].repositoryFullName = fullName }

\* The completed pull-request listings of a repository, of any account.
ListingsOf(fullName) == { l \in listings : l.repo.full_name = fullName }

NoDuplicateNumbers(l) ==
    \A i, j \in DOMAIN l.pullRequests :
      l.pullRequests[i].number = l.pullRequests[j].number => i = j

\* The listing holds every pull request the result has for the repository.
ContainsAll(l, fullName) ==
    \A i \in PullsOf(fullName) :
      \E j \in DOMAIN l.pullRequests :
        l.pullRequests[j].number = returned[1].pullRequests[i].number

\* C35 as stated: if no listing holds a pull-request number twice, each
\* repository's openPullRequestCount is at most the number of pull requests
\* the result has for it, and is strictly smaller exactly when no single
\* listing contained all of them.
C35_CountAsStated ==
    (pc = "returned" /\ \A l \in listings : NoDuplicateNumbers(l)) =>
      \A entry \in Range(returned[1].repositories) :
        /\ entry.openPullRequestCount <= Cardinality(PullsOf(entry.id))
        /\ entry.openPullRequestCount < Cardinality(PullsOf(entry.id))
             <=> ~ \E l \in ListingsOf(entry.id) : ContainsAll(l, entry.id)

\* C35, amended: if no listing holds a pull-request number twice, each
\* repository's openPullRequestCount is at most the number of pull requests
\* the result has for it, and is strictly smaller exactly when the result
\* has pull requests for it and no single listing contained all of them.
C35_CountNeverOvercounts ==
    (pc = "returned" /\ \A l \in listings : NoDuplicateNumbers(l)) =>
      \A entry \in Range(returned[1].repositories) :
        /\ entry.openPullRequestCount <= Cardinality(PullsOf(entry.id))
        /\ entry.openPullRequestCount < Cardinality(PullsOf(entry.id))
             <=> /\ PullsOf(entry.id) # {}
                 /\ ~ \E l \in ListingsOf(entry.id) : ContainsAll(l, entry.id)

\* A result whose repository was listed by two accounts, neither listing
\* holding all the pull requests kept: the count is below their number.
C35_Witness ==
    /\ pc = "returned"
    /\ \E entry \in Range(returned[1].repositories) :
         /\ entry.openPullRequestCount > 0
         /\ entry.openPullRequestCount < Cardinality(PullsOf(entry.id))
         /\ Cardinality(ListingsOf(entry.id)) = 2

\* C36: in every successful result a repository whose archived field is
\* true has openPullRequestCount 0 and no pull request of the result
\* refers to it, whatever the accounts and whatever archived, has_issues
\* and open_issues_count each of them reports for the same full name.
C36_ArchivedHasNoPullRequests ==
    pc = "returned" =>
      \A entry \in Range(returned[1].repositories) :
        entry.archived =>
          /\ entry.openPullRequestCount = 0
          /\ PullsOf(entry.id) = {}

\* C37: switchTab changes only the tab; switchView changes the view, sets
\* the page of all pull requests to 1 and keeps the per-organization pages;
\* switchSort changes the sort, sets the page of all pull requests to 1,
\* empties the per-organization pull-request pages and keeps the repository
\* pages; none of them changes the data or the error the component was
\* given; and tab, view and sort hold one of their values whatever query
\* the page was opened with.
C37_SwitchFrames ==
    /\ [](/\ tabMode \in {"pulls", "repos"}
          /\ viewMode \in {"all", "org"}
          /\ sortMode \in {"newest", "oldest"})
    /\ [][(\E nextTab \in {"repos", "pulls"} : switchTab(nextTab)) \/
              tabMode' # tabMode =>
            UNCHANGED <<viewMode, sortMode, allPullPage, pullOrgPages,
                        repoOrgPages, dashboardData, loadError>>]_vars
    /\ [][(\E nextView \in {"org", "all"} : switchView(nextView)) \/
              viewMode' # viewMode =>
            /\ allPullPage' = 1
            /\ UNCHANGED <<tabMode, sortMode, pullOrgPages, repoOrgPages,
                           dashboardData, loadError>>]_vars
    /\ [][(\E nextSort \in {"newest", "oldest"} : switchSort(nextSort)) \/
              sortMode' # sortMode =>
            /\ allPullPage' = 1
            /\ pullOrgPages' = <<>>
            /\ UNCHANGED <<tabMode, viewMode, repoOrgPages, dashboardData,
                           loadError>>]_vars

\* Opened with ?tab=PULLS, the component has been switched to the pull
\* requests, to the list of all and to the oldest first, after pages of two
\* organizations' repositories had been chosen: those are kept, the
\* pull-request pages are gone.
C37_Witness ==
    /\ Rendered
    /\ searchParams = <<<<"tab", "PULLS">>>>
    /\ tabMode = "pulls"
    /\ viewMode = "all"
    /\ sortMode = "oldest"
    /\ allPullPage = 1
    /\ pullOrgPages = <<>>
    /\ \E one, two \in DOMAIN repoOrgPages :
         one # two /\ repoOrgPages[one] > 1 /\ repoOrgPages[two] > 1

\* The URL shows the component's tab, view and sort.
InSync ==
    /\ ParamsGet(searchParams, "tab") = <<tabMode>>
    /\ ParamsGet(searchParams, "view") = <<viewMode>>
    /\ ParamsGet(searchParams, "sort") = <<sortMode>>

\* The parameters of a query other than tab, view and sort, in their order.
OtherParams(params) ==
    SelectSeq(params, LAMBDA pair : pair[1] \notin {"tab", "view", "sort"})

\* C38: if the tab, view and sort switches come to an end, then, however
\* they were interleaved with the completion of earlier router.replace
\* calls, the URL's tab, view and sort end up equal to the component's
\* state and stay so; and the other parameters of the query are the same in
\* every query the URL takes and in every target asked of the router.
C38_UrlSyncConverges ==
    /\ \A tab \in {"pulls", "repos"}, view \in {"all", "org"},
          sort \in {"newest", "oldest"} :
         <>[](tabMode = tab /\ viewMode = view /\ sortMode = sort)
           => <>[]InSync
    /\ [][OtherParams(searchParams') = OtherParams(searchParams)]_vars
    /\ [](\A i \in DOMAIN replaces :
            OtherParams(replaces[i]) = OtherParams(searchParams))

\* Opened with ?sort=oldest&q=1&tab=PULLS (repositories, by organization,
\* oldest first) and switched to the pull requests, all of them, newest
\* first: the URL has reached that state, with q=1 where it was, and no
\* navigation is left.
C38_Witness ==
    /\ InSync
    /\ replaces = <<>>
    /\ searchParams = <<<<"sort", "newest">>, <<"q", "1">>, <<"tab", "pulls">>,
                        <<"view", "all">>>>
    /\ lastSyncedSearchRef = <<searchParams>>

\* The query the effect aims at in this state.
Target == NextSearch(searchParams, tabMode, viewMode, sortMode)

\* The step calls router.replace.
Replaced == Len(replaces') > Len(replaces)

\* The last target the effect issued is the one it aims at now.
Issued == lastSyncedSearchRef = <<Target>>

\* C39: router.replace is called only with the target of the state of that
\* moment, and only if that target differs from the current query and from
\* the last target issued, which it then becomes; so once a target has been
\* issued, as long as tab, view and sort stay as they are no further
\* router.replace is called, whatever navigations complete meanwhile: after
\* the state has stopped changing there is at most one call.
C39_NoReplaceLoop ==
    /\ [][Replaced =>
            /\ replaces' = Append(replaces, Target)
            /\ Target # searchParams
            /\ lastSyncedSearchRef # <<Target>>
            /\ lastSyncedSearchRef' = <<Target>>]_vars
    /\ [][(/\ Issued
           /\ tabMode' = tabMode
           /\ viewMode' = viewMode
           /\ sortMode' = sortMode) => ~Replaced /\ Issued']_vars

\* Two navigations are under way, the later one to the target of the
\* present state, and the URL still shows another query: the effect, run
\* now, calls nothing.
C39_Witness ==
    /\ Len(replaces) = 2
    /\ replaces[2] = Target
    /\ replaces[1] # Target
    /\ searchParams # Target
    /\ Issued

====
